---- MODULE Spec2Model ----
(***************************************************************************)
(* A model of bitcoin_gains.py: the lot inventory, the replay loop of      *)
(* main(), Lot.split, is_long_term and match_transactions.                 *)
(*                                                                         *)
(* Units.  BTC amounts are integers (a number of indivisible units, the    *)
(* code's Decimal btc scaled by a constant), USD amounts are integer       *)
(* cents.  roundd(x, 2) therefore becomes rounding a rational number of    *)
(* cents to an integer, half to even (Decimal.quantize under the default   *)
(* context).  A price is kept as the pair <<usd, btc>> it was computed     *)
(* from.  The 28-digit Decimal quotient differs from the exact rational    *)
(* only when price * btc is an exact tie and usd / btc does not terminate, *)
(* which needs a lot of 6 or more units; the lots of this model stay       *)
(* below that.                                                             *)
(***************************************************************************)
EXTENDS Integers, Sequences, FiniteSets, Bags, TLC

VARIABLES
    mode,               \* which entry point of the program is running
    call,               \* the arguments of a call of a function on its own
    result,             \* what that call returned, <<>> before it returns
    method, nowash,     \* parsed_args.method, parsed_args.nowash
    dates,              \* the timestamps of the events of `all`, sorted
    ledger,             \* the events of `all` replayed so far (all[:ix])
    status,             \* "running", or the exception that ended main()
    total_cost, account_btc, income, gross_receipts, gift_txns,
    gains, long_term_gains, long_term_gifts, total_buy, total_sell,
    total_cost_basis, long_term_cost_basis, long_term_gift_cost_basis,
    recent_sells, dissallowed_loss, lots, transfered_out,
    short_btc,          \* history: per account, BTC sold from an empty
                        \* inventory (line 1622) minus BTC that push_lot
                        \* took as a short cover (line 1469)
    non_interactive,    \* parsed_args.non_interactive
    max_timestamp,      \* the local of main() set from args.end_date
    ignore_old_coinbase,    \* parsed_args.ignore_old_coinbase
    dropped,            \* history: the timestamps of the events that
                        \* parse_all read and line 1357 left out
    external,           \* the classification store, a FuzzyDict
    prompts,            \* history: the calls of input(), in order
    written             \* history: what json.dump wrote to the store file

replay_vars == <<method, nowash, dates, ledger, status, total_cost, account_btc,
                 income, gross_receipts, gift_txns, gains, long_term_gains,
                 long_term_gifts, total_buy, total_sell, total_cost_basis,
                 long_term_cost_basis, long_term_gift_cost_basis,
                 recent_sells, dissallowed_loss, lots, transfered_out,
                 short_btc, non_interactive, max_timestamp,
                 ignore_old_coinbase, dropped, external, prompts, written>>

\* what an event that asks nothing and stores nothing leaves alone
io_vars == <<non_interactive, max_timestamp, ignore_old_coinbase, dropped,
             external, prompts, written>>

vars == <<mode, call, result, replay_vars>>

----------------------------------------------------------------------------
(* Bounds *)

MaxEvents == 3      \* length of the replayed ledger
DeepEvents == 4     \* its length in SpecDeep
TradeEvents == 5    \* its length in SpecTrades
MaxBtc == 2         \* largest |btc| of an event, in units

----------------------------------------------------------------------------
(* Time: a timestamp is the tuple <<Y, M, D, h, m, s>> of a struct_time.   *)
(* Where the order of whole struct_time values matters (--end_date) it is  *)
(* <<Y, M, D, h, m, s, isdst>>: the weekday and the day of the year, which *)
(* come before tm_isdst in the tuple, are determined by the date.          *)

RECURSIVE LexLess(_, _)
\* Python's < on two sequences of integers of equal length
LexLess(a, b) ==
    IF a = <<>> THEN FALSE
    ELSE IF Head(a) # Head(b) THEN Head(a) < Head(b)
    ELSE LexLess(Tail(a), Tail(b))

IsLeap(y) == (y % 4 = 0 /\ y % 100 # 0) \/ y % 400 = 0

DaysBeforeMonth(y, m) ==
    LET cum == <<0, 31, 59, 90, 120, 151, 181, 212, 243, 273, 304, 334>>
    IN  cum[m] + (IF m > 2 /\ IsLeap(y) THEN 1 ELSE 0)

\* days from 1970-01-01 to the first day of year y (1970 <= y < 2100)
DaysBeforeYear(y) == 365 * (y - 1970) + ((y - 1969) \div 4)

\* time.mktime for a process whose local time is UTC
mktime(t) ==
    (((DaysBeforeYear(t[1]) + DaysBeforeMonth(t[1], t[2]) + (t[3] - 1)) * 24
        + t[4]) * 60 + t[5]) * 60 + t[6]

\* is_long_term.parts: the year, month, day, hour, minute and second that
\* strftime('%Y %m %d %H %M %S') prints, as integers
parts(t) == SubSeq(t, 1, 6)

plus_one_year(p) == <<p[1] + 1>> \o Tail(p)

\* variant: the comparison forgets the added year
is_long_term_same_year(buy, sell) ==
    LexLess(parts(buy.timestamp), parts(sell.timestamp))

\* variant: the comparison looks at the dates only
is_long_term_by_date(buy, sell) ==
    LexLess(SubSeq(plus_one_year(parts(buy.timestamp)), 1, 3),
            SubSeq(parts(sell.timestamp), 1, 3))

is_long_term(buy, sell) ==
    LexLess(plus_one_year(parts(buy.timestamp)), parts(sell.timestamp))

----------------------------------------------------------------------------
(* Decimal rounding *)

\* the integer nearest to n / d (d > 0), ties to the even one
RoundHalfEven(n, d) ==
    LET q == n \div d
        r == n % d
    IN  IF 2 * r < d THEN q
        ELSE IF 2 * r > d THEN q + 1
        ELSE IF q % 2 = 0 THEN q ELSE q + 1

\* roundd(x, 2) for x = n / d cents
roundd(n, d) == RoundHalfEven(n, d)

----------------------------------------------------------------------------
(* Lot *)

\* Python's None where a Lot is expected
None == [timestamp |-> <<>>, btc |-> 0, usd |-> 0, price |-> <<0, 0>>,
         transaction |-> 0, dissallowed_loss |-> 0]

\* Lot.__init__; transaction is the index of the event in `all`
Lot(timestamp, btc, usd, transaction, dl) ==
    [timestamp |-> timestamp, btc |-> btc, usd |-> usd,
     price |-> <<usd, btc>>, transaction |-> transaction,
     dissallowed_loss |-> dl]

\* Lot.split: <<head, tail>>
\* variant: the tail is rounded on its own instead of taking the remainder
split_rounds_tail(self, btc) ==
    IF btc <= 0 THEN <<None, self>>
    ELSE IF btc < self.btc THEN
        LET usd == roundd(self.price[1] * btc, self.price[2])
            dl == roundd(self.dissallowed_loss * btc, self.btc)
            rest == self.btc - btc
        IN  << Lot(self.timestamp, btc, usd, self.transaction, dl),
               Lot(self.timestamp, rest,
                   roundd(self.price[1] * rest, self.price[2]),
                   self.transaction,
                   roundd(self.dissallowed_loss * rest, self.btc)) >>
    ELSE <<self, None>>

split(self, btc) ==
    IF btc <= 0 THEN <<None, self>>
    ELSE IF btc < self.btc THEN
        LET usd == roundd(self.price[1] * btc, self.price[2])
            dl == roundd(self.dissallowed_loss * btc, self.btc)
        IN  << Lot(self.timestamp, btc, usd, self.transaction, dl),
               Lot(self.timestamp, self.btc - btc, self.usd - usd,
                   self.transaction, self.dissallowed_loss - dl) >>
    ELSE <<self, None>>

----------------------------------------------------------------------------
(* Transaction: a record with the fields timestamp, type, btc, usd,        *)
(* fee_usd, fee_btc, id, account, dest_account and txid.  An id is a       *)
(* number whose order is the order of the str(id) of the code; "" stands   *)
(* for an absent dest_account or txid.                                     *)

\* Transaction.__eq__
TxnEq(left, right) ==
    /\ left.timestamp = right.timestamp
    /\ left.btc = right.btc
    /\ left.id = right.id

\* Transaction.__lt__
TxnLess(left, right) ==
    IF left.timestamp = right.timestamp THEN
        IF left.type = "transfer" /\ left.dest_account = right.account
        THEN left.btc < 0
        ELSE IF right.type = "transfer" /\ right.dest_account = left.account
        THEN right.btc > 0
        ELSE IF right.btc # left.btc THEN right.btc < left.btc
        ELSE left.id < right.id
    ELSE LexLess(left.timestamp, right.timestamp)

----------------------------------------------------------------------------
(* Lot selectors.  `all` is the ledger a lot's transaction index refers to *)

\* Python's (a1, t1) < (a2, t2) for timestamps a and transactions t
PairLess(a1, t1, a2, t2) ==
    IF a1 # a2 THEN LexLess(a1, a2)
    ELSE IF ~TxnEq(t1, t2) THEN TxnLess(t1, t2)
    ELSE FALSE

\* Lot.__lt__
LotLess(m, all, left, right) ==
    IF m \in {"fifo", "oldest"}
    THEN PairLess(left.timestamp, all[left.transaction],
                  right.timestamp, all[right.transaction])
    ELSE PairLess(right.timestamp, all[left.transaction],
                  left.timestamp, all[right.transaction])

RECURSIVE siftdown(_, _, _, _, _, _)
\* heapq._siftdown: newitem travels from pos towards startpos (1-based)
siftdown(m, all, heap, startpos, pos, newitem) ==
    IF pos > startpos /\ LotLess(m, all, newitem, heap[pos \div 2])
    THEN siftdown(m, all, [heap EXCEPT ![pos] = heap[pos \div 2]],
                  startpos, pos \div 2, newitem)
    ELSE [heap EXCEPT ![pos] = newitem]

RECURSIVE siftup(_, _, _, _, _, _)
\* heapq._siftup: the smaller child moves up until pos is a leaf, then
\* newitem is sifted down from there
siftup(m, all, heap, startpos, pos, newitem) ==
    LET childpos == 2 * pos
        rightpos == childpos + 1
        c == IF rightpos <= Len(heap)
                  /\ ~LotLess(m, all, heap[childpos], heap[rightpos])
             THEN rightpos ELSE childpos
    IN  IF childpos <= Len(heap)
        THEN siftup(m, all, [heap EXCEPT ![pos] = heap[c]], startpos, c,
                    newitem)
        ELSE siftdown(m, all, heap, startpos, pos, newitem)

\* heapq.heappush
heappush(m, all, heap, item) ==
    siftdown(m, all, Append(heap, item), 1, Len(heap) + 1, item)

\* heapq.heappop: <<item, heap>>
heappop(m, all, heap) ==
    LET lastelt == heap[Len(heap)]
        rest == SubSeq(heap, 1, Len(heap) - 1)
    IN  IF rest # <<>>
        THEN <<rest[1], siftup(m, all, rest, 1, 1, lastelt)>>
        ELSE <<lastelt, rest>>

\* Fifo.push, Lifo.push, HeapLotSelector.push
push(m, all, data, lot) ==
    IF m \in {"fifo", "lifo"} THEN Append(data, lot)
    ELSE heappush(m, all, data, lot)

\* Fifo.pop, Lifo.pop, HeapLotSelector.pop: <<lot, data>>
pop(m, all, data) ==
    IF m = "fifo" THEN <<Head(data), Tail(data)>>
    ELSE IF m = "lifo"
    THEN <<data[Len(data)], SubSeq(data, 1, Len(data) - 1)>>
    ELSE heappop(m, all, data)

\* Fifo.unpop, Lifo.unpop, HeapLotSelector.unpop
unpop(m, all, data, lot) ==
    IF m = "fifo" THEN <<lot>> \o data
    ELSE IF m = "lifo" THEN Append(data, lot)
    ELSE push(m, all, data, lot)

----------------------------------------------------------------------------
(* main(): the replay loop *)

\* variant: a window of 30 hours
WashWindow_hours == 30 * 60 * 60

WashWindow == 30 * 24 * 60 * 60

\* the aggregates of main() as one record
Aggregates ==
    [total_cost |-> total_cost, account_btc |-> account_btc,
     income |-> income, gross_receipts |-> gross_receipts,
     gift_txns |-> gift_txns, gains |-> gains,
     long_term_gains |-> long_term_gains,
     long_term_gifts |-> long_term_gifts, total_buy |-> total_buy,
     total_sell |-> total_sell, total_cost_basis |-> total_cost_basis,
     long_term_cost_basis |-> long_term_cost_basis,
     long_term_gift_cost_basis |-> long_term_gift_cost_basis,
     recent_sells |-> recent_sells, dissallowed_loss |-> dissallowed_loss,
     lots |-> lots, transfered_out |-> transfered_out,
     short_btc |-> short_btc, failed |-> FALSE]

\* variant: the whole lot is held, the part that covers a short included
push_lot_holds_all(m, all, acct_btc, lts, account, lot) ==
    LET sp == split(lot, -acct_btc[account])
        to_sell == sp[1]
    IN  [ret |-> IF to_sell # None THEN -to_sell.usd ELSE 0,
         lots |-> [lts EXCEPT ![account] = push(m, all, @, lot)],
         covered |-> to_sell.btc]

\* main.push_lot: the value returned, the inventories afterwards and the
\* BTC taken as a short cover
push_lot(m, all, acct_btc, lts, account, lot) ==
    LET sp == split(lot, -acct_btc[account])
        to_sell == sp[1]
        to_hold == sp[2]
    IN  [ret |-> IF to_sell # None THEN -to_sell.usd ELSE 0,
         lots |-> IF to_hold # None
                  THEN [lts EXCEPT ![account] = push(m, all, @, to_hold)]
                  ELSE lts,
         covered |-> to_sell.btc]

\* variant: the value push_lot returns is added to gains wherever it is
\* called
Pushed_counts_all(s, account, pl, counted) ==
    [s EXCEPT !.lots = pl.lots,
              !.short_btc[account] = @ - pl.covered,
              !.gains = @ + pl.ret]

\* the aggregates once push_lot has returned pl for account; its value is
\* added to gains at lines 1603 and 1606 (counted) and dropped at line 1637
Pushed(s, account, pl, counted) ==
    [s EXCEPT !.lots = pl.lots,
              !.short_btc[account] = @ - pl.covered,
              !.gains = IF counted THEN @ + pl.ret ELSE @]

RECURSIVE WashLoop(_, _, _, _, _, _)

\* variant: the loss of the sale stays in gains
WashAttach_keeps_gains(m, all, t, timestamp, s, sp3, loss) ==
    LET wash_buy == [sp3[1] EXCEPT !.dissallowed_loss = loss,
                                   !.usd = @ + loss]
    IN  WashLoop(m, all, t, timestamp,
            Pushed([s EXCEPT !.dissallowed_loss = @ + loss,
                             !.total_cost = @ + wash_buy.usd - loss],
                   t.account,
                   push_lot(m, all, s.account_btc, s.lots, t.account,
                            wash_buy),
                   TRUE),
            sp3[2])

\* lines 1597-1604: sp3 is <<wash_buy, buy>>, the bought lot split to the
\* sale; the loss goes to the aggregates and to wash_buy, which is pushed
WashAttach(m, all, t, timestamp, s, sp3, loss) ==
    LET wash_buy == [sp3[1] EXCEPT !.dissallowed_loss = loss,
                                   !.usd = @ + loss]
    IN  WashLoop(m, all, t, timestamp,
            Pushed([s EXCEPT !.gains = @ + loss,
                             !.dissallowed_loss = @ + loss,
                             !.total_cost = @ + wash_buy.usd - loss],
                   t.account,
                   push_lot(m, all, s.account_btc, s.lots, t.account,
                            wash_buy),
                   TRUE),
            sp3[2])

\* variant: the remainders go to the back of recent_sells
WashSplit_appends_remainder(m, all, t, timestamp, popped, buy, sp1, sp2) ==
    WashAttach(m, all, t, timestamp,
        [popped EXCEPT !.recent_sells =
            IF sp1[2] # None THEN @ \o <<<<sp1[2], sp2[2]>>>> ELSE @],
        split(buy, sp1[1].btc),
        sp2[1].usd - sp1[1].usd)

\* lines 1591-1596: sp1 and sp2 are the sale and its lot split to the
\* bought lot; their remainders go back to the front of recent_sells
WashSplit(m, all, t, timestamp, popped, buy, sp1, sp2) ==
    WashAttach(m, all, t, timestamp,
        [popped EXCEPT !.recent_sells =
            IF sp1[2] # None THEN <<<<sp1[2], sp2[2]>>>> \o @ ELSE @],
        split(buy, sp1[1].btc),
        sp2[1].usd - sp1[1].usd)

\* variant: the pairs dropped at line 1589 are those with
\* recent_sell_buy.usd >= recent_sell.usd
WashLoop_drops_losses(m, all, t, timestamp, s, buy) ==
    IF s.recent_sells = <<>> \/ buy = None THEN <<s, buy>>
    ELSE
        LET recent_sell == Head(s.recent_sells)[1]
            recent_sell_buy == Head(s.recent_sells)[2]
            popped == [s EXCEPT !.recent_sells = Tail(@)]
        IN  IF mktime(recent_sell.timestamp) < mktime(timestamp) - WashWindow
            THEN WashLoop(m, all, t, timestamp, popped, buy)
            ELSE IF recent_sell_buy.usd >= recent_sell.usd
            THEN WashLoop(m, all, t, timestamp, popped, buy)
            ELSE WashSplit(m, all, t, timestamp, popped, buy,
                           split(recent_sell, buy.btc),
                           split(recent_sell_buy, buy.btc))

\* variant: the age of the sale is not looked at
WashLoop_never_ages(m, all, t, timestamp, s, buy) ==
    IF s.recent_sells = <<>> \/ buy = None THEN <<s, buy>>
    ELSE
        LET recent_sell == Head(s.recent_sells)[1]
            recent_sell_buy == Head(s.recent_sells)[2]
            popped == [s EXCEPT !.recent_sells = Tail(@)]
        IN  IF recent_sell_buy.usd < recent_sell.usd
            THEN WashLoop(m, all, t, timestamp, popped, buy)
            ELSE WashSplit(m, all, t, timestamp, popped, buy,
                           split(recent_sell, buy.btc),
                           split(recent_sell_buy, buy.btc))

\* lines 1585-1604: `while recent_sells and buy`; s is the aggregates, buy
\* the part of the acquired lot not yet placed; returns <<s, buy>>
WashLoop(m, all, t, timestamp, s, buy) ==
    IF s.recent_sells = <<>> \/ buy = None THEN <<s, buy>>
    ELSE
        LET recent_sell == Head(s.recent_sells)[1]
            recent_sell_buy == Head(s.recent_sells)[2]
            popped == [s EXCEPT !.recent_sells = Tail(@)]
        IN  IF mktime(recent_sell.timestamp) < mktime(timestamp) - WashWindow
            THEN WashLoop(m, all, t, timestamp, popped, buy)
            ELSE IF recent_sell_buy.usd < recent_sell.usd
            THEN WashLoop(m, all, t, timestamp, popped, buy)
            ELSE WashSplit(m, all, t, timestamp, popped, buy,
                           split(recent_sell, buy.btc),
                           split(recent_sell_buy, buy.btc))

\* lines 1605-1607: w is <<s, buy>> as the wash loop left them
Keep(m, all, t, w) ==
    IF w[1].recent_sells = <<>> /\ w[2] # None
    THEN Pushed([w[1] EXCEPT !.total_cost = @ + w[2].usd],
                t.account,
                push_lot(m, all, w[1].account_btc, w[1].lots, t.account,
                         w[2]),
                TRUE)
    ELSE w[1]

\* variant: --nowash is not looked at
Acquire_tracks_wash(m, nw, all, t, timestamp, usd, btc, s) ==
    Keep(m, all, t,
         WashLoop(m, all, t, timestamp,
                  [s EXCEPT !.total_buy = @ - usd],
                  Lot(timestamp, btc, -usd, Len(all), 0)))

\* lines 1580-1607: the branch btc > 0
Acquire(m, nw, all, t, timestamp, usd, btc, s) ==
    Keep(m, all, t,
         WashLoop(m, all, t, timestamp,
                  [s EXCEPT !.total_buy = @ - usd,
                            !.recent_sells = IF nw THEN <<>> ELSE @],
                  Lot(timestamp, btc, -usd, Len(all), 0)))

\* the account main() lets go short (the assert of line 1620)
BitcoindAccount == "bitcoind"

RECURSIVE SellLoop(_, _, _, _, _)

\* variant: every lot disposed of is entered into recent_sells and takes
\* its loss out of dissallowed_loss
Sold_enters_all(m, all, t, s, x, buy, sell) ==
    LET lt == is_long_term(buy, sell)
        g == sell.usd - buy.usd
        s2 == [s EXCEPT
                !.total_sell = @ + sell.usd,
                !.total_cost_basis = @ + buy.usd,
                !.long_term_cost_basis = IF lt THEN @ + buy.usd ELSE @,
                !.total_cost = @ - (buy.usd - buy.dissallowed_loss),
                !.dissallowed_loss = @ - buy.dissallowed_loss,
                !.recent_sells = Append(@, <<sell, buy>>)]
        x2 == [x EXCEPT
                !.gain = @ + g,
                !.long_term_gain = IF lt THEN @ + g ELSE @]
    IN  IF t.type = "transfer_out" THEN
            SellLoop(m, all, t,
                [s2 EXCEPT !.transfered_out = Append(@, <<Len(all), buy>>)],
                x2)
        ELSE IF t.type = "gift" /\ lt THEN
            SellLoop(m, all, t,
                [s2 EXCEPT !.long_term_gift_cost_basis = @ + buy.usd],
                [x2 EXCEPT !.long_term_gift = @ + g])
        ELSE
            SellLoop(m, all, t, s2, x2)

\* lines 1640-1655: lot buy is disposed of for sell
Sold(m, all, t, s, x, buy, sell) ==
    LET lt == is_long_term(buy, sell)
        g == sell.usd - buy.usd
        s2 == [s EXCEPT
                !.total_sell = @ + sell.usd,
                !.total_cost_basis = @ + buy.usd,
                !.long_term_cost_basis = IF lt THEN @ + buy.usd ELSE @,
                !.total_cost = @ - (buy.usd - buy.dissallowed_loss)]
        x2 == [x EXCEPT
                !.gain = @ + g,
                !.long_term_gain = IF lt THEN @ + g ELSE @]
    IN  IF t.type = "transfer_out" THEN
            SellLoop(m, all, t,
                [s2 EXCEPT !.transfered_out = Append(@, <<Len(all), buy>>)],
                x2)
        ELSE IF t.type = "gift" /\ lt THEN
            SellLoop(m, all, t,
                [s2 EXCEPT !.long_term_gift_cost_basis = @ + buy.usd],
                [x2 EXCEPT !.long_term_gift = @ + g])
        ELSE
            SellLoop(m, all, t,
                [s2 EXCEPT
                    !.dissallowed_loss = @ - buy.dissallowed_loss,
                    !.recent_sells = Append(@, <<sell, buy>>)],
                x2)

\* lines 1632-1638: sp3 is <<lost, buy>>, the lot taken split to the fee
\* still to lose; what is left of it goes to the destination
Moved(m, all, t, s, x, sp3) ==
    SellLoop(m, all, t,
        IF sp3[2] # None
        THEN Pushed([s EXCEPT !.account_btc[t.dest_account] = @ + sp3[2].btc],
                    t.dest_account,
                    push_lot(m, all, s.account_btc, s.lots, t.dest_account,
                             sp3[2]),
                    FALSE)
        ELSE s,
        [x EXCEPT !.lost_in_transfer = @ - sp3[1].btc])

\* lines 1627-1631: buy is the lot taken, sp2 is <<sell, to_sell>>
Taken(m, all, t, s, x, buy, sp2) ==
    IF t.type = "transfer"
    THEN Moved(m, all, t, s,
               [x EXCEPT !.to_sell = sp2[2], !.sold_lots = Append(@, buy)],
               IF x.lost_in_transfer # 0
               THEN split(buy, x.lost_in_transfer) ELSE <<None, buy>>)
    ELSE Sold(m, all, t, s,
              [x EXCEPT !.to_sell = sp2[2], !.sold_lots = Append(@, buy)],
              buy, sp2[1])

\* lines 1626-1630: pp is <<buy, data>>, the lot to sell from and the
\* inventory without it; short when the lot is the one of line 1622
Popped(m, all, t, s, x, short, pp, sp1) ==
    Taken(m, all, t,
          [s EXCEPT
              !.lots[t.account] =
                  IF sp1[2] # None THEN unpop(m, all, pp[2], sp1[2])
                  ELSE pp[2],
              !.short_btc[t.account] = IF short THEN @ + pp[1].btc ELSE @],
          x, sp1[1], split(x.to_sell, sp1[1].btc))

\* lines 1616-1626: pp is <<buy, data>>
Drawn(m, all, t, s, x, short, pp) ==
    Popped(m, all, t, s, x, short, pp, split(pp[1], x.to_sell.btc))

\* variant: every account may sell from an empty inventory
SellLoop_shorts_anywhere(m, all, t, s, x) ==
    IF x.to_sell = None \/ s.failed THEN <<s, x>>
    ELSE IF s.lots[t.account] = <<>>
    THEN Drawn(m, all, t, s, x, TRUE,
               <<Lot(t.timestamp, x.to_sell.btc, 0, Len(all), 0),
                 s.lots[t.account]>>)
    ELSE Drawn(m, all, t, s, x, FALSE, pop(m, all, s.lots[t.account]))

\* lines 1615-1655: `while to_sell`; s is the aggregates, x the locals
\* to_sell, lost_in_transfer, gain, long_term_gain, long_term_gift and
\* sold_lots
SellLoop(m, all, t, s, x) ==
    IF x.to_sell = None \/ s.failed THEN <<s, x>>
    ELSE IF s.lots[t.account] = <<>> /\ t.account # BitcoindAccount
    THEN <<[s EXCEPT !.failed = TRUE], x>>
    ELSE IF s.lots[t.account] = <<>>
    THEN Drawn(m, all, t, s, x, TRUE,
               <<Lot(t.timestamp, x.to_sell.btc, 0, Len(all), 0),
                 s.lots[t.account]>>)
    ELSE Drawn(m, all, t, s, x, FALSE, pop(m, all, s.lots[t.account]))

\* lines 1656-1660: r is <<s, x>> as the loop left them
Disposed(all, t, r) ==
    IF r[1].failed THEN r[1]
    ELSE [r[1] EXCEPT
            !.gains = @ + r[2].gain,
            !.long_term_gains = @ + r[2].long_term_gain,
            !.long_term_gifts = @ + r[2].long_term_gift,
            !.gift_txns = IF t.type = "gift"
                          THEN Append(@, <<Len(all), r[2].sold_lots>>)
                          ELSE @]

\* lines 1608-1660: the branch btc < 0
Dispose(m, all, t, timestamp, usd, btc, s) ==
    Disposed(all, t,
        SellLoop(m, all, t, s,
            [to_sell |-> Lot(timestamp, -btc, usd, Len(all), 0),
             sold_lots |-> <<>>, gain |-> 0, long_term_gain |-> 0,
             long_term_gift |-> 0, lost_in_transfer |-> t.fee_btc]))

\* variant: fee_btc stays in the account
Apply_keeps_fee(m, nw, all, t, timestamp, usd, btc0, s) ==
    LET s1 == [s EXCEPT !.account_btc[t.account] = @ + btc0]
    IN  IF btc0 = 0 THEN s1
        ELSE IF btc0 > 0 THEN Acquire(m, nw, all, t, timestamp, usd, btc0, s1)
        ELSE Dispose(m, all, t, timestamp, usd, btc0, s1)

\* lines 1573-1660: the event t with the effective usd and btc of lines
\* 1488-1509 applied to the aggregates s; all is the ledger up to t
Apply(m, nw, all, t, timestamp, usd, btc0, s) ==
    LET btc == IF btc0 < 0 THEN btc0 - t.fee_btc ELSE btc0
        s1 == [s EXCEPT !.account_btc[t.account] = @ + btc]
    IN  IF btc = 0 THEN s1
        ELSE IF btc > 0 THEN Acquire(m, nw, all, t, timestamp, usd, btc, s1)
        ELSE Dispose(m, all, t, timestamp, usd, btc, s1)

\* the aggregates become the locals of main(); an AssertionError ends the
\* process, whose locals are then gone
Commit(all, s) ==
    IF s.failed
    THEN /\ status' = "AssertionError"
         /\ UNCHANGED <<ledger, total_cost, account_btc, income,
                gross_receipts, gift_txns, gains, long_term_gains,
                long_term_gifts, total_buy, total_sell, total_cost_basis,
                long_term_cost_basis, long_term_gift_cost_basis,
                recent_sells, dissallowed_loss, lots, transfered_out,
                short_btc>>
    ELSE /\ status' = status
         /\ ledger' = all
         /\ total_cost' = s.total_cost
         /\ account_btc' = s.account_btc
         /\ income' = s.income
         /\ gross_receipts' = s.gross_receipts
         /\ gift_txns' = s.gift_txns
         /\ gains' = s.gains
         /\ long_term_gains' = s.long_term_gains
         /\ long_term_gifts' = s.long_term_gifts
         /\ total_buy' = s.total_buy
         /\ total_sell' = s.total_sell
         /\ total_cost_basis' = s.total_cost_basis
         /\ long_term_cost_basis' = s.long_term_cost_basis
         /\ long_term_gift_cost_basis' = s.long_term_gift_cost_basis
         /\ recent_sells' = s.recent_sells
         /\ dissallowed_loss' = s.dissallowed_loss
         /\ lots' = s.lots
         /\ transfered_out' = s.transfered_out
         /\ short_btc' = s.short_btc

----------------------------------------------------------------------------
(* The classification store.  An id is kept as the tuple of the segments   *)
(* that ':' separates in the string, so 'txid:0' is <<"txid", 0>>; the     *)
(* value stored under an id is a record of the fields the replay reads.    *)

\* Python's None where a key is expected
NoKey == <<>>

\* short_id: id.rsplit(':', 1)[0]
short_id(id) == IF Len(id) > 1 THEN SubSeq(id, 1, Len(id) - 1) ELSE id

\* FuzzyDict.__init__ with alias_fn = short_id: an alias that two keys share
\* is mapped to None
FuzzyDict(actual) ==
    [actual |-> actual,
     aliases |->
        [alias \in {short_id(key) : key \in DOMAIN actual} |->
            IF \E k1, k2 \in DOMAIN actual :
                    k1 # k2 /\ short_id(k1) = alias /\ short_id(k2) = alias
            THEN NoKey
            ELSE CHOOSE key \in DOMAIN actual : short_id(key) = alias]]

\* self._aliases.get(self._alias_fn(key))
alias_of(self, key) ==
    IF short_id(key) \in DOMAIN self.aliases
    THEN self.aliases[short_id(key)] ELSE NoKey

\* FuzzyDict.__contains__
contains(self, key) ==
    key \in DOMAIN self.actual \/ alias_of(self, key) # NoKey

\* what a lookup gives when self._actual[None] raises
KeyError == [type |-> "KeyError", usd |-> 0]

\* FuzzyDict.__getitem__
getitem(self, key) ==
    IF key \in DOMAIN self.actual THEN self.actual[key]
    ELSE IF alias_of(self, key) \in DOMAIN self.actual
    THEN self.actual[alias_of(self, key)]
    ELSE KeyError

\* variant: the written entry replaces the others
setitem_forgets(self, key, value) ==
    [self EXCEPT !.actual = [k \in {key} |-> value]]

\* FuzzyDict.__setitem__
setitem(self, key, value) ==
    [self EXCEPT !.actual =
        [k \in DOMAIN self.actual \cup {key} |->
            IF k = key THEN value ELSE self.actual[k]]]

\* line 1438: max_timestamp without --end_date, the tuple (inf,)
NoLimit == <<"inf">>

\* a run with -y, without --end_date and without a store file, before the
\* loop
InitArgs ==
    /\ non_interactive = TRUE
    /\ max_timestamp = NoLimit
    /\ dropped = <<>>
    /\ ignore_old_coinbase = "auto"
    /\ external = FuzzyDict(<<>>)
    /\ prompts = <<>>
    /\ written = <<>>

----------------------------------------------------------------------------
(* The ledgers replayed *)

Accounts == {BitcoindAccount, "ex"}

Methods == {"fifo", "lifo", "oldest", "newest"}

\* The timestamps of a ledger are taken from two runs of dates 10 days
\* apart, the second run starting one year and one day after the first:
\* Calendar(n, g) is g dates of the first run followed by n - g dates of the
\* second.
NearDates == << <<2019, 2, 28, 0, 0, 0>>, <<2019, 3, 10, 0, 0, 0>>,
                <<2019, 3, 20, 0, 0, 0>>, <<2019, 3, 30, 0, 0, 0>>,
                <<2019, 4, 9, 0, 0, 0>>, <<2019, 4, 19, 0, 0, 0>> >>

FarDates == << <<2020, 2, 29, 0, 0, 0>>, <<2020, 3, 10, 0, 0, 0>>,
               <<2020, 3, 20, 0, 0, 0>>, <<2020, 3, 30, 0, 0, 0>>,
               <<2020, 4, 9, 0, 0, 0>>, <<2020, 4, 19, 0, 0, 0>> >>

Calendar(n, g) ==
    [k \in 1..n |-> IF k <= g THEN NearDates[k] ELSE FarDates[k - g]]

Calendars(n) == {Calendar(n, g) : g \in 1..n}

\* USD amounts of events, in cents
UsdVals == {3, 10}

MaxFeeBtc == 1      \* largest fee_btc of a transfer

Txn(timestamp, type, btc, usd, fee_usd, fee_btc, id, account, dest, txid) ==
    [timestamp |-> timestamp, type |-> type, btc |-> btc, usd |-> usd,
     fee_usd |-> fee_usd, fee_btc |-> fee_btc, id |-> id,
     account |-> account, dest_account |-> dest, txid |-> txid]

\* the timestamp of the next event
NextDate == dates[Len(ledger) + 1]

\* line 1486: timestamp > max_timestamp, the comparison of two struct_time
\* as tuples, or of a struct_time with the tuple (inf,)
After(timestamp, max) ==
    IF max = NoLimit THEN FALSE ELSE LexLess(max, timestamp)

\* lines 1481-1487: the loop over the sorted ledger; the next event is
\* all[ix] and is not after max_timestamp
CanReplay ==
    /\ mode = "replay"
    /\ status = "running"
    /\ Len(ledger) < Len(dates)
    /\ ~After(NextDate, max_timestamp)

\* lines 1488-1489: a trade on one of the accounts accts
ReplayTradeOn(accts) ==
    /\ CanReplay
    /\ \E d \in {NextDate}, a \in accts, q \in 1..MaxBtc, u \in UsdVals,
          sign \in {-1, 1} :
        LET t == Txn(d, "trade", sign * q, -sign * u, 0, 0,
                     Len(ledger) + 1, a, "", "")
            all == Append(ledger, t)
        IN  Commit(all, Apply(method, nowash, all, t, t.timestamp,
                              t.usd - t.fee_usd, t.btc, Aggregates))
    /\ UNCHANGED <<mode, call, result, method, nowash, dates, io_vars>>

ReplayTrade == ReplayTradeOn(Accounts)

\* a trade on the default account
ReplayDefaultTrade == ReplayTradeOn({BitcoindAccount})

\* lines 1490-1491: an internal transfer
ReplayTransfer ==
    /\ CanReplay
    /\ \E d \in {NextDate}, a \in Accounts, b \in Accounts, q \in 1..MaxBtc,
          f \in 0..MaxFeeBtc :
        LET t == Txn(d, "transfer", -q, 0, 0, f, Len(ledger) + 1, a, b, "")
            all == Append(ledger, t)
        IN  /\ a # b
            /\ Commit(all, Apply(method, nowash, all, t, t.timestamp,
                                 0, t.btc, Aggregates))
    /\ UNCHANGED <<mode, call, result, method, nowash, dates, io_vars>>

\* line 1494: t.id is in the external store; the stored usd and type
ExternalData ==
    {[type |-> "gift", usd |-> 10], [type |-> "transfer_out", usd |-> 0],
     [type |-> "expense", usd |-> 10], [type |-> "income", usd |-> -10]}

\* lines 1498-1509: the type of t after the stored classification; the test
\* of line 1498 is a substring test on 'transfer_out'
ClassifiedType(t, data) ==
    IF data.type \in {"transfer_out", "transfer"} THEN "transfer_out"
    ELSE IF data.type \in {"income", "expense"} THEN t.type
    ELSE IF data.type = "gift" THEN "gift"
    ELSE IF data.type \in {"buy", "sale", "purchase"} THEN "trade"
    ELSE t.type

\* lines 1500-1505
Classify(data, s) ==
    IF data.type \in {"income", "expense"}
    THEN [s EXCEPT !.income = @ - data.usd,
                   !.gross_receipts = IF data.type = "income"
                                      THEN @ - data.usd ELSE @]
    ELSE s

\* lines 1493-1509: a deposit or withdrawal classified in the store
ReplayExternal ==
    /\ CanReplay
    /\ \E d \in {NextDate}, a \in Accounts, q \in 1..MaxBtc,
          data \in ExternalData :
        LET deposit == data.type = "income"
            t0 == Txn(d, IF deposit THEN "deposit" ELSE "withdraw",
                      IF deposit THEN q ELSE -q, 0, 0, 0,
                      Len(ledger) + 1, a, "", "")
            t == [t0 EXCEPT !.type = ClassifiedType(t0, data)]
            all == Append(ledger, t)
        IN  /\ data.type \in {"income", "expense"} => q = 1
            /\ Commit(all, Apply(method, nowash, all, t, t.timestamp,
                                 data.usd, t.btc, Classify(data, Aggregates)))
    /\ UNCHANGED <<mode, call, result, method, nowash, dates, io_vars>>

\* the locals of main() before the loop (lines 1445-1479)
InitMain ==
    /\ ledger = <<>>
    /\ status = "running"
    /\ total_cost = 0
    /\ account_btc = [a \in Accounts |-> 0]
    /\ income = 0
    /\ gross_receipts = 0
    /\ gift_txns = <<>>
    /\ gains = 0
    /\ long_term_gains = 0
    /\ long_term_gifts = 0
    /\ total_buy = 0
    /\ total_sell = 0
    /\ total_cost_basis = 0
    /\ long_term_cost_basis = 0
    /\ long_term_gift_cost_basis = 0
    /\ recent_sells = <<>>
    /\ dissallowed_loss = 0
    /\ lots = [a \in Accounts |-> <<>>]
    /\ transfered_out = <<>>
    /\ short_btc = [a \in Accounts |-> 0]

InitReplay ==
    /\ mode = "replay"
    /\ call = <<>>
    /\ result = <<>>
    /\ InitMain
    /\ InitArgs
    /\ method \in Methods
    /\ nowash \in BOOLEAN
    /\ dates \in Calendars(MaxEvents)

\* longer ledgers of trades on the default account and of transfers,
\* replayed under fifo with wash sales
InitDeep ==
    /\ mode = "replay"
    /\ call = <<>>
    /\ result = <<>>
    /\ InitMain
    /\ InitArgs
    /\ method = "fifo"
    /\ nowash = FALSE
    /\ dates = Calendar(DeepEvents, DeepEvents)

\* ledgers of trades on the default account, replayed under fifo
InitTrades ==
    /\ mode = "replay"
    /\ call = <<>>
    /\ result = <<>>
    /\ InitMain
    /\ InitArgs
    /\ method = "fifo"
    /\ nowash \in BOOLEAN
    /\ dates = Calendar(TradeEvents, TradeEvents)

Init == InitReplay

Next == ReplayTrade \/ ReplayTransfer \/ ReplayExternal

Spec == Init /\ [][Next]_vars

NextDeep == ReplayDefaultTrade \/ ReplayTransfer

SpecDeep == InitDeep /\ [][NextDeep]_vars

NextTrades == ReplayDefaultTrade

SpecTrades == InitTrades /\ [][NextTrades]_vars

GiftEvents == 4     \* length of the ledger in SpecGifts

\* dates 10 days apart, the last one 10 days or more than a year after the
\* one before
GiftCalendars(n) ==
    {[k \in 1..n |-> IF k < n THEN NearDates[k] ELSE last] :
        last \in {NearDates[n], FarDates[n]}}

\* ledgers of trades on the default account and of classified deposits and
\* withdrawals, replayed under fifo with wash sales
InitGifts ==
    /\ mode = "replay"
    /\ call = <<>>
    /\ result = <<>>
    /\ InitMain
    /\ InitArgs
    /\ method = "fifo"
    /\ nowash = FALSE
    /\ dates \in GiftCalendars(GiftEvents)

NextGifts == ReplayDefaultTrade \/ ReplayExternal

SpecGifts == InitGifts /\ [][NextGifts]_vars

FeeEvents == 3      \* length of the ledger in SpecFees

MaxFeeUsd == 1      \* largest fee_usd of a trade, in cents

\* lines 1488-1489: a trade on the default account that is charged a fee
\* in usd, in btc, in both or in neither
ReplayTradeWithFees ==
    /\ CanReplay
    /\ \E d \in {NextDate}, q \in 1..MaxBtc, u \in UsdVals, sign \in {-1, 1},
          fee_usd \in 0..MaxFeeUsd, fee_btc \in 0..MaxFeeBtc :
        LET t == Txn(d, "trade", sign * q, -sign * u, fee_usd, fee_btc,
                     Len(ledger) + 1, BitcoindAccount, "", "")
            all == Append(ledger, t)
        IN  Commit(all, Apply(method, nowash, all, t, t.timestamp,
                              t.usd - t.fee_usd, t.btc, Aggregates))
    /\ UNCHANGED <<mode, call, result, method, nowash, dates, io_vars>>

\* ledgers of trades with fees, replayed under every lot selector
InitFees ==
    /\ mode = "replay"
    /\ call = <<>>
    /\ result = <<>>
    /\ InitMain
    /\ InitArgs
    /\ method \in Methods
    /\ nowash \in BOOLEAN
    /\ dates = Calendar(FeeEvents, FeeEvents)

SpecFees == InitFees /\ [][ReplayTradeWithFees]_vars

----------------------------------------------------------------------------
(* Deposits, withdrawals and fees: classified by the store, or by asking.  *)
(* What is typed at a prompt is a record: text is what precedes an         *)
(* optional trailing '?' ("" when nothing does) and mark tells whether the *)
(* '?' was typed.  An option is typed in full.                             *)

\* re_input, for an answer r that the regex accepts
re_input(ni, r, default) ==
    IF ni THEN [text |-> default, mark |-> FALSE]
    ELSE IF r.text = "" THEN [text |-> default, mark |-> r.mark]
    ELSE r

\* option_input: the option chosen and whether to record it
option_input(ni, r, default) ==
    [option |-> re_input(ni, r, default).text,
     record |-> IF re_input(ni, r, default).mark THEN FALSE ELSE ~ni]

\* value_input: the usd; v is what is typed, "" for nothing, "$" or "@"
\* followed by an amount
value_input(ni, v, btc, price) ==
    IF ni \/ v.kind = "" THEN roundd(btc * price, 1)
    ELSE IF v.kind = "@" THEN roundd(btc * v.amount, 1)
    ELSE v.amount

\* the calls of input() made for event t, one record per call: the prompt
\* it is made at and, at the prompt for an option, the option understood
Inputs(ni, t, names, option) ==
    IF ni THEN <<>>
    ELSE [k \in 1..Len(names) |->
            [id |-> t.id, at |-> names[k],
             reply |-> IF names[k] = "option" THEN option ELSE ""]]

\* what lines 1510-1564 leave: how they end ("go" on to line 1565, or the
\* exit taken), the locals type, save_choice and usd, the type of t, what
\* is subtracted from income and from gross_receipts, and the prompts shown
Outcome(how, type, save_choice, usd, t_type, earned, received, shown) ==
    [how |-> how, type |-> type, save_choice |-> save_choice, usd |-> usd,
     t_type |-> t_type, earned |-> earned, received |-> received,
     shown |-> shown]

\* lines 1525-1545: o is what option_input returned, usd what value_input
\* would
AskDeposit(ni, t, a, o, usd) ==
    IF o.option \in {"quit", "abort"}
    THEN Outcome(o.option, o.option, o.record, 0, t.type, 0, 0,
                 Inputs(ni, t, <<"option">>, o.option))
    ELSE IF o.option = "transfer" /\ a.dated /\ ~ni
    THEN Outcome("ValueError", o.option, o.record, 0, t.type, 0, 0,
                 Inputs(ni, t, <<"option", "date">>, o.option))
    ELSE IF o.option = "transfer"
    THEN Outcome("go", o.option, o.record, -usd, t.type, 0, 0,
                 Inputs(ni, t, <<"option", "date", "value">>, o.option))
    ELSE Outcome("go", o.option, o.record, -usd, t.type,
                 IF o.option = "income" THEN -usd ELSE 0,
                 IF o.option = "income" THEN -usd ELSE 0,
                 Inputs(ni, t, <<"option", "value">>, o.option))

\* lines 1551-1564
AskWithdrawal(ni, t, a, o, usd) ==
    IF o.option \in {"quit", "abort"}
    THEN Outcome(o.option, o.option, o.record, 0, t.type, 0, 0,
                 Inputs(ni, t, <<"option">>, o.option))
    ELSE IF o.option = "transfer"
    THEN Outcome("go", "transfer_out", o.record, 0, "transfer_out", 0, 0,
                 Inputs(ni, t, <<"option">>, o.option))
    ELSE Outcome("go", o.option, o.record, usd, t.type,
                 IF o.option = "expense" THEN usd ELSE 0, 0,
                 Inputs(ni, t, <<"option", "value">>, o.option))

\* lines 1511-1564 for an event of nonzero btc; price is t.price or
\* fmv(t.timestamp), a the answers the user would give
Ask(ni, t, price, a) ==
    IF t.btc > 0
    THEN AskDeposit(ni, t, a, option_input(ni, a.option, "income"),
                    value_input(ni, a.value, t.btc, price))
    ELSE IF t.type = "fee"
    THEN Outcome("go", "fee", ~ni, roundd(-price * t.btc, 1), t.type, 0, 0,
                 <<>>)
    ELSE AskWithdrawal(ni, t, a, option_input(ni, a.option, "purchase"),
                       value_input(ni, a.value, -t.btc, price))

\* variant: the file is written whatever parsed_args.non_interactive is
save_external_always(ni, ext, w) == Append(w, ext.actual)

\* save_external: what the store file has been given
save_external(ni, ext, w) == IF ~ni THEN Append(w, ext.actual) ELSE w

\* the process ends with e; the locals of main() are gone
Exit(e) ==
    /\ status' = e
    /\ UNCHANGED <<ledger, total_cost, account_btc, income, gross_receipts,
                   gift_txns, gains, long_term_gains, long_term_gifts,
                   total_buy, total_sell, total_cost_basis,
                   long_term_cost_basis, long_term_gift_cost_basis,
                   recent_sells, dissallowed_loss, lots, transfered_out,
                   short_btc>>

\* lines 1565-1660 for the event t0 once lines 1510-1564 left p
Prompted(t0, p) ==
    IF p.how = "quit"
    THEN /\ prompts' = prompts \o p.shown
         /\ written' = save_external(non_interactive, external, written)
         /\ external' = external
         /\ Exit("SystemExit")
    ELSE IF p.how \in {"abort", "ValueError"}
    THEN /\ prompts' = prompts \o p.shown
         /\ UNCHANGED <<written, external>>
         /\ Exit(IF p.how = "abort" THEN "SystemExit" ELSE p.how)
    ELSE LET t == [t0 EXCEPT !.type = p.t_type]
             all == Append(ledger, t)
             save == p.type # "fee" /\ p.save_choice
         IN  /\ prompts' = prompts \o p.shown
                    \o (IF save THEN <<[id |-> t.id, at |-> "note",
                                     reply |-> ""]>>
                        ELSE <<>>)
             /\ external' = IF save
                            THEN setitem(external, t.id,
                                         [type |-> p.type, usd |-> p.usd,
                                          purchase_date |-> t.timestamp])
                            ELSE external
             /\ written' = written
             /\ Commit(all, Apply(method, nowash, all, t, t.timestamp, p.usd,
                                  t.btc,
                                  [Aggregates EXCEPT
                                      !.income = @ - p.earned,
                                      !.gross_receipts = @ - p.received]))

\* the first segments of the ids of deposits and withdrawals
Bases == {"a", "b"}

\* t.price or fmv(t.timestamp), in cents per unit
FmvPrices == {5}

OptionsAsked == {"income", "transfer", "buy", "sale", "purchase", "expense",
                 "gift", "abort", "quit"}

\* what the user may type at the three prompts of one event
Answers ==
    [option : [text : OptionsAsked \cup {""}, mark : BOOLEAN],
     dated : BOOLEAN,
     value : {[kind |-> "", amount |-> 0], [kind |-> "$", amount |-> 7]}]

\* the options offered at line 1525 and at line 1551
Offered(t) ==
    IF t.btc > 0 THEN {"", "income", "transfer", "buy", "abort", "quit"}
    ELSE {"", "sale", "purchase", "transfer", "expense", "gift", "abort",
          "quit"}

\* nothing is typed at a prompt that is not shown
Typed(ni, t, a) ==
    /\ a.option.text \in Offered(t)
    /\ (ni \/ t.btc = 0 \/ t.type = "fee") =>
            a.option = [text |-> "", mark |-> FALSE]
    /\ a.dated => (t.btc > 0 /\ a.option.text = "transfer")
    /\ a.value.kind # "" =>
            /\ a.option.text \notin {"quit", "abort"}
            /\ ~a.dated
            /\ a.option.text = "transfer" => t.btc > 0

\* lines 1510-1570: a deposit, withdrawal or fee that the store does not
\* know
ReplayPrompted ==
    /\ CanReplay
    /\ \E base \in Bases, kind \in {"deposit", "withdraw", "fee"},
          q \in 0..1, price \in FmvPrices, a \in Answers :
        LET t == Txn(NextDate, kind, IF kind = "deposit" THEN q ELSE -q,
                     0, 0, 0, <<base, Len(ledger) + 1>>, BitcoindAccount,
                     "", "")
        IN  /\ ~contains(external, t.id)
            /\ Typed(non_interactive, t, a)
            /\ IF t.btc = 0
               THEN /\ ledger' = Append(ledger, t)
                    /\ UNCHANGED <<status, total_cost, account_btc, income,
                           gross_receipts, gift_txns, gains, long_term_gains,
                           long_term_gifts, total_buy, total_sell,
                           total_cost_basis, long_term_cost_basis,
                           long_term_gift_cost_basis, recent_sells,
                           dissallowed_loss, lots, transfered_out, short_btc,
                           external, prompts, written>>
               ELSE Prompted(t, Ask(non_interactive, t, price, a))
    /\ UNCHANGED <<mode, call, result, method, nowash, dates,
                   non_interactive, max_timestamp, ignore_old_coinbase,
                   dropped>>

\* lines 1494-1509 and 1573-1660 for the event t0 that the store knows as
\* data; the purchase_date read at line 1497 is not used: timestamp stays
\* t.timestamp (line 1485)
Stored(t0, data) ==
    LET t == [t0 EXCEPT !.type = ClassifiedType(t0, data)]
        all == Append(ledger, t)
    IN  Commit(all, Apply(method, nowash, all, t, t.timestamp, data.usd,
                          t.btc, Classify(data, Aggregates)))

\* lines 1493-1509: a deposit or withdrawal found in the store, by its id
\* or by its short id
ReplayStored ==
    /\ CanReplay
    /\ \E base \in Bases, kind \in {"deposit", "withdraw"} :
        LET t == Txn(NextDate, kind, IF kind = "deposit" THEN 1 ELSE -1,
                     0, 0, 0, <<base, Len(ledger) + 1>>, BitcoindAccount,
                     "", "")
        IN  /\ contains(external, t.id)
            /\ Stored(t, getitem(external, t.id))
    /\ UNCHANGED <<mode, call, result, method, nowash, dates, io_vars>>

\* lines 1486-1487 and 1676-1679: the loop is left and the store saved;
\* total_btc is read, which only line 1662 sets
Finish ==
    /\ mode = "replay"
    /\ status = "running"
    /\ IF Len(ledger) = Len(dates) THEN TRUE
       ELSE After(NextDate, max_timestamp)
    /\ written' = save_external(non_interactive, external, written)
    /\ UNCHANGED <<external, prompts>>
    /\ Exit(IF \E i \in 1..Len(ledger) : ledger[i].btc # 0
            THEN "done" ELSE "UnboundLocalError")
    /\ UNCHANGED <<mode, call, result, method, nowash, dates,
                   non_interactive, max_timestamp, ignore_old_coinbase,
                   dropped>>

PromptEvents == 2   \* length of the ledger of deposits and withdrawals

\* a purchase_date in a store file, earlier than every event
LongAgo == <<2017, 1, 1, 0, 0, 0>>

\* the store files found: none, one with a withdrawal under 'a:0' and one
\* with a transfer in under 'a:0', bought long ago
PromptFiles ==
    {<<>>,
     [key \in {<<"a", 0>>} |->
        [type |-> "transfer_out", usd |-> 0, purchase_date |-> LongAgo]],
     [key \in {<<"a", 0>>} |->
        [type |-> "transfer", usd |-> -3, purchase_date |-> LongAgo]]}

InitPrompt ==
    /\ mode = "replay"
    /\ call = <<>>
    /\ result = <<>>
    /\ InitMain
    /\ method = "fifo"
    /\ nowash = FALSE
    /\ dates = Calendar(PromptEvents, PromptEvents)
    /\ non_interactive \in BOOLEAN
    /\ max_timestamp = NoLimit
    /\ dropped = <<>>
    /\ ignore_old_coinbase = "auto"
    /\ external \in {FuzzyDict(actual) : actual \in PromptFiles}
    /\ prompts = <<>>
    /\ written = <<>>

NextPrompt == ReplayPrompted \/ ReplayStored \/ Finish

SpecPrompt == InitPrompt /\ [][NextPrompt]_vars

----------------------------------------------------------------------------
(* --end_date.  time.strptime leaves tm_isdst at -1; time.localtime, which *)
(* BitcoindParser and others stamp their events with, sets it to 0 or 1.  *)

EndEvents == 3      \* number of events that parse_all reads

\* line 1436: strptime(end_date + " 23:59:59")
EndOf(day) == day \o <<23, 59, 59, -1>>

EndDay == <<2019, 3, 10>>

\* timestamps around the end of EndDay, in sorted order
EndDates == << <<2019, 3, 10, 12, 0, 0, -1>>, <<2019, 3, 10, 23, 59, 59, -1>>,
               <<2019, 3, 10, 23, 59, 59, 0>>, <<2019, 3, 11, 0, 0, 0, -1>> >>

\* the sorted ledgers of EndEvents events with timestamps of EndDates
EndCalendars ==
    {[k \in 1..EndEvents |-> EndDates[f[k]]] :
        f \in {g \in [1..EndEvents -> 1..Len(EndDates)] :
                    \A k \in 1..(EndEvents - 1) : g[k] < g[k + 1]}}

Within(timestamp) == ~After(timestamp, max_timestamp)

Beyond(timestamp) == After(timestamp, max_timestamp)

\* lines 1308-1311 and 1357: parse_all keeps the events with
\* t.timestamp <= max_timestamp; main() sets max_timestamp again, the same
InitEnd ==
    /\ mode = "replay"
    /\ call = <<>>
    /\ result = <<>>
    /\ InitMain
    /\ method = "fifo"
    /\ nowash = FALSE
    /\ non_interactive = TRUE
    /\ max_timestamp \in {NoLimit, EndOf(EndDay)}
    /\ \E parsed \in EndCalendars :
        /\ dates = SelectSeq(parsed, Within)
        /\ dropped = SelectSeq(parsed, Beyond)
    /\ ignore_old_coinbase = "auto"
    /\ external = FuzzyDict(<<>>)
    /\ prompts = <<>>
    /\ written = <<>>

NextEnd == ReplayDefaultTrade \/ Finish

SpecEnd == InitEnd /\ [][NextEnd]_vars

----------------------------------------------------------------------------
(* parse_all over Coinbase files.  A file is a record of its kind, "old"   *)
(* for a CSV export that CoinbaseParser can parse, "downloaded" for a file *)
(* of download-coinbase.py, and of the number of rows it holds; call is    *)
(* args.histories and result[i] the number of events that parsing file i  *)
(* appended to `all`.                                                      *)

CoinbaseFiles == 2      \* number of files in args.histories

Flags == {"auto", "true", "false", "True", "no", "maybe"}

\* str.lower on the values of Flags
lower(flag) == IF flag = "True" THEN "true" ELSE flag

Histories ==
    UNION {[1..n -> [kind : {"old", "downloaded"}, rows : 1..2]] :
            n \in 1..CoinbaseFiles}

\* lines 511-519: 'auto' is replaced, once, by what the files say
Resolved(flag, histories) ==
    IF flag # "auto" THEN flag
    ELSE IF \E i \in 1..Len(histories) : histories[i].kind = "downloaded"
    THEN "true" ELSE "false"

\* lines 520-525: the local ignore_old_coinbase, as Python prints it, or
\* the exception raised
Skips(flag) ==
    IF lower(flag) \in {"true", "yes"} THEN "True"
    ELSE IF lower(flag) \in {"false", "no"} THEN "True"
    ELSE "ValueError"

InitCoinbase ==
    /\ mode = "parse_all"
    /\ call \in Histories
    /\ result = <<>>
    /\ InitMain
    /\ method = "fifo"
    /\ nowash = FALSE
    /\ dates = <<>>
    /\ non_interactive = TRUE
    /\ max_timestamp = NoLimit
    /\ dropped = <<>>
    /\ ignore_old_coinbase \in Flags
    /\ external = FuzzyDict(<<>>)
    /\ prompts = <<>>
    /\ written = <<>>

Parsing(kind) ==
    /\ mode = "parse_all"
    /\ status = "running"
    /\ Len(result) < Len(call)
    /\ call[Len(result) + 1].kind = kind

\* lines 1331-1343 with CoinbaseParser.parse_file, lines 510-527
ParseOldCoinbase ==
    /\ Parsing("old")
    /\ ignore_old_coinbase' = Resolved(ignore_old_coinbase, call)
    /\ IF Skips(ignore_old_coinbase') = "ValueError"
       THEN status' = "ValueError" /\ result' = result
       ELSE /\ status' = status
            /\ result' = Append(result,
                                IF Skips(ignore_old_coinbase') = "True" THEN 0
                                ELSE call[Len(result) + 1].rows)
    /\ UNCHANGED <<mode, call, method, nowash, dates, ledger, total_cost,
                   account_btc, income, gross_receipts, gift_txns, gains,
                   long_term_gains, long_term_gifts, total_buy, total_sell,
                   total_cost_basis, long_term_cost_basis,
                   long_term_gift_cost_basis, recent_sells, dissallowed_loss,
                   lots, transfered_out, short_btc, non_interactive,
                   max_timestamp, dropped, external, prompts, written>>

\* lines 1331-1343 with DownloadedCoinbaseParser.parse_file, lines 453-499
ParseDownloadedCoinbase ==
    /\ Parsing("downloaded")
    /\ result' = Append(result, call[Len(result) + 1].rows)
    /\ UNCHANGED <<mode, call, replay_vars>>

NextCoinbase == ParseOldCoinbase \/ ParseDownloadedCoinbase

SpecCoinbase == InitCoinbase /\ [][NextCoinbase]_vars

----------------------------------------------------------------------------
(* Sums over an inventory *)

RECURSIVE SumBtc(_)
SumBtc(data) ==
    IF data = <<>> THEN 0 ELSE Head(data).btc + SumBtc(Tail(data))

RECURSIVE SumUsd(_)
SumUsd(data) ==
    IF data = <<>> THEN 0 ELSE Head(data).usd + SumUsd(Tail(data))

RECURSIVE SumLoss(_)
SumLoss(data) ==
    IF data = <<>> THEN 0
    ELSE Head(data).dissallowed_loss + SumLoss(Tail(data))

RECURSIVE SumOver(_, _)
\* the sum of f[a] over the accounts of S
SumOver(f, S) ==
    IF S = {} THEN 0
    ELSE LET a == CHOOSE x \in S : TRUE IN f[a] + SumOver(f, S \ {a})

Abs(x) == IF x < 0 THEN -x ELSE x

Range(seq) == {seq[i] : i \in 1..Len(seq)}

HeldLots == UNION {Range(lots[a]) : a \in Accounts}

NumHeldLots == SumOver([a \in Accounts |-> Len(lots[a])], Accounts)

IsTrade(t) == t.type = "trade" /\ t.fee_usd = 0 /\ t.fee_btc = 0

IsBuy(t) == IsTrade(t) /\ t.btc > 0

IsSale(t) == IsTrade(t) /\ t.btc < 0

Replayed == mode = "replay" /\ status = "running"

----------------------------------------------------------------------------
(* Lot.split and is_long_term called on their own *)

\* main() is not running: its locals stay as they are before the loop
Idle ==
    /\ InitMain
    /\ InitArgs
    /\ method = "fifo"
    /\ nowash = FALSE
    /\ dates = <<>>

MaxLotBtc == 4      \* largest btc of a lot that is split, in units

LotUsdVals == {0, 3, 10, 11}

LossVals == {0, 1, 7}

\* a lot as the replay loop makes it: built from a buy (line 1583) and,
\* when a wash sale was attached, with the loss added to usd and to
\* dissallowed_loss while price stays (lines 1601-1602)
WashedLot(timestamp, btc, usd, transaction, loss) ==
    [Lot(timestamp, btc, usd, transaction, 0) EXCEPT
        !.usd = @ + loss, !.dissallowed_loss = @ + loss]

SplitLots ==
    {WashedLot(NearDates[1], b, u, 1, w) :
        b \in 1..MaxLotBtc, u \in LotUsdVals, w \in LossVals}

InitSplit ==
    /\ mode = "split"
    /\ call \in [self : SplitLots, btc : 0..(MaxLotBtc + 1)]
    /\ result = <<>>
    /\ Idle

CallSplit ==
    /\ mode = "split"
    /\ result = <<>>
    /\ result' = split(call.self, call.btc)
    /\ UNCHANGED <<mode, call, replay_vars>>

SpecSplit == InitSplit /\ [][CallSplit]_vars

DaysInMonth(y, m) ==
    IF m = 2 THEN (IF IsLeap(y) THEN 29 ELSE 28)
    ELSE IF m \in {4, 6, 9, 11} THEN 30 ELSE 31

Stamps ==
    {<<y, m, d, h, 0, sec>> :
        y \in 2019..2021, m \in {2, 3}, d \in {1, 28, 29},
        h \in {0, 12}, sec \in {0, 1}}

ValidStamps == {t \in Stamps : t[3] <= DaysInMonth(t[1], t[2])}

InitLongTerm ==
    /\ mode = "is_long_term"
    /\ call \in [buy : [timestamp : ValidStamps],
                  sell : [timestamp : ValidStamps]]
    /\ result = <<>>
    /\ Idle

CallLongTerm ==
    /\ mode = "is_long_term"
    /\ result = <<>>
    /\ result' = <<is_long_term(call.buy, call.sell)>>
    /\ UNCHANGED <<mode, call, replay_vars>>

SpecLongTerm == InitLongTerm /\ [][CallLongTerm]_vars

----------------------------------------------------------------------------
(* Transaction.__lt__ called on the pairs of three events, as list.sort    *)
(* does: call is the three events, result[i][j] what call[i] < call[j]     *)
(* returned.                                                               *)

OrderIds == 2       \* number of ids of the events compared

OrderDates == {NearDates[1], NearDates[2]}

OtherAccount(a) == CHOOSE b \in Accounts : b # a

\* events as main() sorts them at line 1440: events of the parsers, and
\* transfers made by match_transactions (btc < 0, a dest_account)
OrderEvents ==
    {Txn(d, "trade", b, 0, 0, 0, i, a, "", "") :
        d \in OrderDates, b \in {-1, 1}, i \in 1..OrderIds, a \in Accounts}
    \cup
    {Txn(d, "transfer", -1, 0, 0, 0, i, a, OtherAccount(a), "") :
        d \in OrderDates, i \in 1..OrderIds, a \in Accounts}

InitOrder ==
    /\ mode = "lt"
    /\ call \in [1..3 -> OrderEvents]
    /\ result = <<>>
    /\ Idle

CallLess ==
    /\ mode = "lt"
    /\ result = <<>>
    /\ result' = [i \in 1..3 |-> [j \in 1..3 |-> TxnLess(call[i], call[j])]]
    /\ UNCHANGED <<mode, call, replay_vars>>

SpecOrder == InitOrder /\ [][CallLess]_vars

----------------------------------------------------------------------------
(* parse_all over one file of bitcoind's listtransactions.  An item of the *)
(* file is a record of txid, vout, category, amount and confirmations;     *)
(* the fee of an item is that of its on-chain transaction, and its time,   *)
(* NearDates[txid], too.                                                   *)
(* The id 'txid:vout' of an event is kept as a number that orders as the   *)
(* strings do.  call is the list of items and result, once parse_all has   *)
(* run, <<all>>.                                                           *)

BitcoindItems == 3      \* largest number of items in the file

BitcoindTxids == 2      \* number of on-chain transactions

BitcoindVouts == 2      \* number of outputs of a transaction

\* item['fee'] of the 'send' items of a transaction: listtransactions gives
\* the fee of the whole transaction, as a negative amount, with each of them
TxFee(txid) == IF txid = 1 THEN -1 ELSE 0

Items ==
    [txid : 1..BitcoindTxids, vout : 0..(BitcoindVouts - 1),
     category : {"send", "receive"}, amount : 1..2,
     confirmations : {-1, 1}]

\* line 126: item['txid'] + ":" + str(item['vout'])
BitcoindId(item) == item.txid * BitcoindVouts + item.vout

\* lines 121-142 for one item that is not skipped at line 135
BitcoindEvent(item) ==
    IF item.category = "send"
    THEN Txn(NearDates[item.txid], "withdraw", -item.amount, 0, 0,
             TxFee(item.txid), BitcoindId(item), BitcoindAccount, "", "")
    ELSE Txn(NearDates[item.txid], "deposit", item.amount, 0, 0, 0,
             BitcoindId(item), BitcoindAccount, "", "")

\* BitcoindParser.parse_file, lines 120-142: the events of the items that
\* are not in conflict
RECURSIVE parse_file(_)
parse_file(items) ==
    IF items = <<>> THEN <<>>
    ELSE IF Head(items).confirmations >= 0
    THEN <<BitcoindEvent(Head(items))>> \o parse_file(Tail(items))
    ELSE parse_file(Tail(items))

\* BitcoindParser.merge_some, lines 145-149
merge_some(transactions) ==
    [k \in 1..Len(transactions) |->
        IF k = 1 THEN transactions[k]
        ELSE [transactions[k] EXCEPT !.fee_btc = 0]]

\* lines 1352-1357: the events grouped by (parser, id), the groups in the
\* order in which the dictionary got their keys, each through merge_some
RECURSIVE by_date(_)
by_date(all) ==
    IF all = <<>> THEN <<>>
    ELSE merge_some(SelectSeq(all, LAMBDA t : t.id = Head(all).id))
         \o by_date(SelectSeq(all, LAMBDA t : t.id # Head(all).id))

\* t put into the sorted list `all` behind what is not after it
RECURSIVE Insert(_, _)
Insert(all, t) ==
    IF all = <<>> THEN <<t>>
    ELSE IF TxnLess(t, Head(all)) THEN <<t>> \o all
    ELSE <<Head(all)>> \o Insert(Tail(all), t)

\* line 1358, all.sort(): a stable sort by Transaction.__lt__
RECURSIVE Sort(_)
Sort(all) ==
    IF all = <<>> THEN <<>>
    ELSE Insert(Sort(SubSeq(all, 1, Len(all) - 1)), all[Len(all)])

InitBitcoind ==
    /\ mode = "bitcoind"
    /\ call \in UNION {[1..n -> Items] : n \in 1..BitcoindItems}
    /\ result = <<>>
    /\ Idle

\* parse_all, lines 1330-1358, for args.histories of one bitcoind file
ParseBitcoind ==
    /\ mode = "bitcoind"
    /\ result = <<>>
    /\ result' = <<Sort(SelectSeq(by_date(parse_file(call)),
                                  LAMBDA t : Within(t.timestamp)))>>
    /\ UNCHANGED <<mode, call, replay_vars>>

SpecBitcoind == InitBitcoind /\ [][ParseBitcoind]_vars

----------------------------------------------------------------------------
(* A lot selector on its own: lots[BitcoindAccount] is its _data, and the  *)
(* lots' transactions are events of SelectorLedger.  call is a history:    *)
(* the lots held in the order in which they came in, the remainder that    *)
(* unpop brings back standing where the lot it is left of stood.  result   *)
(* is the last call: its name, its lot (the argument, or what pop          *)
(* returned), where that lot stood in call and the number of calls so far. *)
(* No two lots held have the same fields, so that the history can tell     *)
(* them apart.                                                             *)

SelectorCalls == 5      \* number of calls of push, pop and unpop

SelectorLots == 3       \* largest number of lots held

\* three purchases, the last two at one instant
SelectorLedger ==
    << Txn(NearDates[1], "trade", 2, -10, 0, 0, 1, BitcoindAccount, "", ""),
       Txn(NearDates[2], "trade", 2, -10, 0, 0, 2, BitcoindAccount, "", ""),
       Txn(NearDates[2], "trade", 2, -10, 0, 0, 3, BitcoindAccount, "", "") >>

\* the lots pushed: a purchase, or a part of one that a wash sale or a
\* transfer made, with or without a loss attached (lines 1601-1607, 1637)
PushedLots ==
    {WashedLot(SelectorLedger[i].timestamp, btc, 5 * btc, i, loss) :
        i \in 1..Len(SelectorLedger), btc \in 1..MaxBtc, loss \in {0, 1}}

InitSelector ==
    /\ mode = "selector"
    /\ call = <<>>
    /\ result = [op |-> "", lot |-> None, at |-> 0, n |-> 0]
    /\ InitMain
    /\ InitArgs
    /\ method \in Methods
    /\ nowash = FALSE
    /\ dates = <<>>

\* lots[account].push(lot), lines 1468 and 1637
Push ==
    /\ mode = "selector" /\ result.n < SelectorCalls
    /\ Len(lots[BitcoindAccount]) < SelectorLots
    /\ \E lot \in PushedLots :
        /\ lot \notin Range(lots[BitcoindAccount])
        /\ lots' = [lots EXCEPT ![BitcoindAccount] =
                        push(method, SelectorLedger, @, lot)]
        /\ call' = Append(call, lot)
        /\ result' = [op |-> "push", lot |-> lot, at |-> Len(call) + 1,
                      n |-> result.n + 1]
    /\ UNCHANGED <<mode, ledger, status, total_cost, account_btc, income,
                   gross_receipts, gift_txns, gains, long_term_gains,
                   long_term_gifts, total_buy, total_sell, total_cost_basis,
                   long_term_cost_basis, long_term_gift_cost_basis,
                   recent_sells, dissallowed_loss, transfered_out, short_btc,
                   method, nowash, dates, io_vars>>

\* buy = lots[t.account].pop(), line 1625
Pop ==
    /\ mode = "selector" /\ result.n < SelectorCalls
    /\ lots[BitcoindAccount] # <<>>
    /\ lots' = [lots EXCEPT ![BitcoindAccount] =
                    pop(method, SelectorLedger, @)[2]]
    /\ result' = [op |-> "pop",
                  lot |-> pop(method, SelectorLedger,
                              lots[BitcoindAccount])[1],
                  at |-> CHOOSE k \in 1..Len(call) :
                            call[k] = pop(method, SelectorLedger,
                                          lots[BitcoindAccount])[1],
                  n |-> result.n + 1]
    /\ call' = SubSeq(call, 1, result'.at - 1)
                    \o SubSeq(call, result'.at + 1, Len(call))
    /\ UNCHANGED <<mode, ledger, status, total_cost, account_btc, income,
                   gross_receipts, gift_txns, gains, long_term_gains,
                   long_term_gifts, total_buy, total_sell, total_cost_basis,
                   long_term_cost_basis, long_term_gift_cost_basis,
                   recent_sells, dissallowed_loss, transfered_out, short_btc,
                   method, nowash, dates, io_vars>>

\* lots[t.account].unpop(remaining), lines 1626-1629: what is left of the
\* lot just popped, split to less than it holds
Unpop ==
    /\ mode = "selector" /\ result.n < SelectorCalls
    /\ result.op = "pop"
    /\ \E btc \in 1..(result.lot.btc - 1) :
        /\ split(result.lot, btc)[2] \notin Range(lots[BitcoindAccount])
        /\ lots' = [lots EXCEPT ![BitcoindAccount] =
                        unpop(method, SelectorLedger, @,
                              split(result.lot, btc)[2])]
        /\ call' = SubSeq(call, 1, result.at - 1)
                        \o <<split(result.lot, btc)[2]>>
                        \o SubSeq(call, result.at, Len(call))
        /\ result' = [op |-> "unpop", lot |-> split(result.lot, btc)[2],
                      at |-> result.at, n |-> result.n + 1]
    /\ UNCHANGED <<mode, ledger, status, total_cost, account_btc, income,
                   gross_receipts, gift_txns, gains, long_term_gains,
                   long_term_gifts, total_buy, total_sell, total_cost_basis,
                   long_term_cost_basis, long_term_gift_cost_basis,
                   recent_sells, dissallowed_loss, transfered_out, short_btc,
                   method, nowash, dates, io_vars>>

SpecSelector == InitSelector /\ [][Push \/ Pop \/ Unpop]_vars

----------------------------------------------------------------------------
(* match_transactions.  The events are objects: objs[o] is the event with  *)
(* identity o, and a list of events is a sequence of identities.  A state  *)
(* of the matcher is a record of objs, the list `all`, the dictionary      *)
(* `deposits` as a function from keys to lists, a history `pairs` of the   *)
(* matches made, and `raised`, set when list.remove finds no element.      *)

transfer_window_hours == 24

NoId == 0           \* id=None

\* list.remove(x): the list without its first element equal to objs[x];
\* the list itself when there is none
RemoveEq(objs, seq, x) ==
    LET hits == {i \in 1..Len(seq) : TxnEq(objs[seq[i]], objs[x])}
    IN  IF hits = {} THEN seq
        ELSE LET i == CHOOSE h \in hits : \A g \in hits : h <= g
             IN  SubSeq(seq, 1, i - 1) \o SubSeq(seq, i + 1, Len(seq))

Holds(objs, seq, x) ==
    \E i \in 1..Len(seq) : TxnEq(objs[seq[i]], objs[x])

\* deposits.get(key, ())
Get(deposits, key) ==
    IF key \in DOMAIN deposits THEN deposits[key] ELSE <<>>

\* lines 1373-1380, with the keyword arguments spelled out
replace_with_transfer(st, withdrawal, deposit, fee_btc, fee_usd, txid) ==
    LET w == st.objs[withdrawal]
        d == st.objs[deposit]
        transfer == Txn(w.timestamp, "transfer", w.btc, 0, fee_usd, fee_btc,
                        NoId, w.account, d.account, txid)
        all1 == RemoveEq(st.objs, st.all, withdrawal)
        all2 == RemoveEq(st.objs, all1, deposit)
    IN  IF ~Holds(st.objs, st.all, withdrawal) \/ ~Holds(st.objs, all1, deposit)
        THEN [st EXCEPT !.raised = TRUE]
        ELSE [st EXCEPT
                 !.objs = Append(@, transfer),
                 !.all = Append(all2, Len(st.objs) + 1),
                 !.pairs = Append(@, [withdrawal |-> withdrawal,
                                      deposit |-> deposit,
                                      transfer |-> Len(st.objs) + 1,
                                      gone |-> {o \in Range(st.all) :
                                                  o \notin Range(all2)}])]

\* line 1392, the test of a candidate
InWindow(candidate, t) ==
    /\ Abs(mktime(candidate.timestamp) - mktime(t.timestamp))
            < transfer_window_hours * 3600
    /\ t.account # candidate.account

\* lines 1389-1397: the body of the loop of the amount pass for event t
AmountStep(st, t) ==
    LET e == st.objs[t]
        matches == Get(st.deposits, -e.btc)
        ok == {i \in 1..Len(matches) : InWindow(st.objs[matches[i]], e)}
        candidate == matches[CHOOSE i \in ok : \A j \in ok : i <= j]
    IN  IF st.raised \/ e.type # "withdraw" \/ e.btc = 0 \/ ok = {} THEN st
        ELSE replace_with_transfer(
                 [st EXCEPT !.deposits[-e.btc] =
                                RemoveEq(st.objs, @, candidate)],
                 t, candidate, e.fee_btc, e.fee_usd, "")

\* variant: the sign of the difference is lost
implied_fee_signed(t, candidate) == t.btc + candidate.btc

\* line 1418
implied_fee(t, candidate) == -(t.btc + candidate.btc)

\* lines 1413-1420: the body of the loop of the txid pass for event t
TxidStep(st, t) ==
    LET e == st.objs[t]
        matches == Get(st.deposits, e.txid)
        candidate == matches[1]
        fee == implied_fee(e, st.objs[candidate])
    IN  IF st.raised \/ e.type # "withdraw" \/ e.btc = 0
            \/ Len(matches) # 1 THEN st
        ELSE replace_with_transfer(
                 [st EXCEPT !.deposits[e.txid] =
                                RemoveEq(st.objs, @, candidate),
                            !.objs[t].btc = @ + fee],
                 t, candidate, fee, 0, e.txid)

RECURSIVE AmountLoop(_, _)
\* line 1388, `for t in list(all)`, over what is left of the snapshot
AmountLoop(st, snapshot) ==
    IF snapshot = <<>> THEN st
    ELSE AmountLoop(AmountStep(st, Head(snapshot)), Tail(snapshot))

RECURSIVE TxidLoop(_, _)
\* line 1412, `for t in list(all)`, over what is left of the snapshot
TxidLoop(st, snapshot) ==
    IF snapshot = <<>> THEN st
    ELSE TxidLoop(TxidStep(st, Head(snapshot)), Tail(snapshot))

\* lines 1383-1386: the deposits of `all` with a btc, by btc
AmountDeposits(objs, all) ==
    LET deps == SelectSeq(all, LAMBDA o : objs[o].type = "deposit"
                                            /\ objs[o].btc # 0)
    IN  [key \in {objs[o].btc : o \in Range(deps)} |->
            SelectSeq(deps, LAMBDA o : objs[o].btc = key)]

\* lines 1406-1409: the deposits of `all` with a txid, by txid
TxidDeposits(objs, all) ==
    LET deps == SelectSeq(all, LAMBDA o : objs[o].type = "deposit"
                                            /\ objs[o].txid # "")
    IN  [key \in {objs[o].txid : o \in Range(deps)} |->
            SelectSeq(deps, LAMBDA o : objs[o].txid = key)]

\* lines 1372-1429: the list returned, with the history of the matches
match_transactions(all) ==
    LET n == Len(all)
        ids == [i \in 1..n |-> i]
        st0 == [objs |-> all, all |-> ids,
                deposits |-> AmountDeposits(all, ids),
                pairs |-> <<>>, raised |-> FALSE]
        st1 == AmountLoop(st0, st0.all)
        amount_pairs == Len(st1.pairs)
        st2 == TxidLoop([st1 EXCEPT
                            !.deposits = TxidDeposits(st1.objs, st1.all)],
                        st1.all)
    IN  [all |-> [i \in 1..Len(st2.all) |-> st2.objs[st2.all[i]]],
         given |-> all,
         objs |-> st2.objs,
         pairs |-> st2.pairs,
         amount_pairs |-> amount_pairs,
         raised |-> st2.raised]

MatchEvents == 3    \* length of a ledger given to match_transactions
PlainEvents == 4    \* its length when no event has a txid or a fee
MaxId == 2          \* largest id of an event
MatchRuns == 2      \* successive runs of match_transactions on a ledger

\* the timestamps of a ledger by position: all the same, half a day
\* apart, or in pairs half a day apart
MatchCalendars(n) ==
    { [k \in 1..n |-> <<2019, 3, 1, 0, 0, 0>>],
      [k \in 1..n |-> <<2019, 3, 1 + ((k - 1) \div 2),
                        12 * ((k - 1) % 2), 0, 0>>],
      [k \in 1..n |-> <<2019, 3, 1, 12 * ((k - 1) \div 2), 0, 0>>] }

\* the deposits and withdrawals a parser may yield at a timestamp
MatchTxns(timestamp, btcs, fees, txids) ==
    {Txn(timestamp, "deposit", q, 0, 0, 0, i, a, "", x) :
        q \in btcs, i \in 1..MaxId, a \in Accounts, x \in txids}
    \cup
    {Txn(timestamp, "withdraw", -q[1], 0, 0, q[2], i, a, "", x) :
        q \in btcs \X fees, i \in 1..MaxId, a \in Accounts, x \in txids}

\* line 1357, all.sort(): no event is before an earlier one
IsSorted(all) ==
    \A i, j \in 1..Len(all) : i < j => ~TxnLess(all[j], all[i])

MatchLedgers(n, btcs, fees, txids) ==
    UNION { {all \in [1..n -> UNION {MatchTxns(c[k], btcs, fees, txids) :
                                        k \in 1..n}] :
                /\ \A k \in 1..n : all[k].timestamp = c[k]
                /\ IsSorted(all)} : c \in MatchCalendars(n) }

InitMatch ==
    /\ mode = "match_transactions"
    /\ call \in [all : MatchLedgers(MatchEvents, 1..MaxBtc, 0..MaxFeeBtc,
                                     {"", "tx"})
                        \cup MatchLedgers(PlainEvents, {1}, {0}, {""})]
    /\ result = <<>>
    /\ Idle

\* match_transactions is given the ledger, and then what it returned
CallMatch ==
    /\ mode = "match_transactions"
    /\ Len(result) < MatchRuns
    /\ result # <<>> => ~result[Len(result)].raised
    /\ result' = Append(result, match_transactions(
                     IF result = <<>> THEN call.all
                     ELSE result[Len(result)].all))
    /\ UNCHANGED <<mode, call, replay_vars>>

SpecMatch == InitMatch /\ [][CallMatch]_vars

----------------------------------------------------------------------------
(* main() run on one ledger of trades under each of two lot selectors:     *)
(* call is the ledger replayed so far, result[m] the aggregates of the run *)
(* with --method m.                                                        *)

PolicyEvents == 5   \* length of the ledger replayed under both selectors

Policies == {"fifo", "lifo"}

\* fmv(t.timestamp), in cents per unit
MarketPrices == {0, 100}

\* lines 1662-1666
unrealized_gains(s, market_price) ==
    market_price * SumOver(s.account_btc, Accounts)
        - s.total_cost - s.dissallowed_loss

InitPolicies ==
    /\ mode = "policies"
    /\ call = <<>>
    /\ InitMain
    /\ InitArgs
    /\ method = "fifo"
    /\ nowash \in BOOLEAN
    /\ dates = Calendar(PolicyEvents, PolicyEvents)
    /\ result = [m \in Policies |-> Aggregates]

\* lines 1481-1675 for the next trade, in both runs
ReplayUnderPolicies ==
    /\ mode = "policies"
    /\ Len(call) < Len(dates)
    /\ \E q \in 1..MaxBtc, u \in UsdVals, sign \in {-1, 1} :
        LET t == Txn(dates[Len(call) + 1], "trade", sign * q, -sign * u, 0, 0,
                     Len(call) + 1, BitcoindAccount, "", "")
            all == Append(call, t)
        IN  /\ call' = all
            /\ result' = [m \in Policies |->
                    Apply(m, nowash, all, t, t.timestamp, t.usd - t.fee_usd,
                          t.btc, result[m])]
    /\ UNCHANGED <<mode, replay_vars>>

SpecPolicies == InitPolicies /\ [][ReplayUnderPolicies]_vars

----------------------------------------------------------------------------
(* RunningReport.  self is a record of date_format and data; data is a     *)
(* dictionary, a function from the strings that strftime makes to rows,    *)
(* and a row is a function from column names to amounts.  A string made by *)
(* strftime is the tuple of the numbers it prints, whose order as strings  *)
(* of zero-padded digits is the order of the tuples.                       *)

ReportRecords == 3  \* number of calls of record

DateFormats == {"%Y-%m", "%Y", "All time"}

\* time.strftime(date_format, timestamp)
strftime(date_format, timestamp) ==
    IF date_format = "%Y-%m" THEN <<timestamp[1], timestamp[2]>>
    ELSE IF date_format = "%Y" THEN <<timestamp[1]>>
    ELSE <<>>

\* RunningReport.__init__
RunningReport(date_format) ==
    [date_format |-> date_format, data |-> <<>>, calls |-> 0]

\* RunningReport.record
record(self, timestamp, values) ==
    LET date == strftime(self.date_format, timestamp)
    IN  [self EXCEPT
            !.data = [d \in DOMAIN self.data \cup {date} |->
                        IF d = date THEN values ELSE self.data[d]],
            !.calls = @ + 1]

RECURSIVE sorted(_)
\* sorted() of a set of strftime strings of one format
sorted(S) ==
    IF S = {} THEN <<>>
    ELSE LET least == CHOOSE x \in S : \A y \in S \ {x} : LexLess(x, y)
         IN  <<least>> \o sorted(S \ {least})

\* dict.get(key, 0)
GetOr0(last, key) == IF key \in DOMAIN last THEN last[key] ELSE 0

RECURSIVE DeltasLoop(_, _, _, _)
\* lines 1218-1222: the loop over the sorted dates still to visit
DeltasLoop(data, todo, last, all) ==
    IF todo = <<>> THEN all
    ELSE DeltasLoop(data, Tail(todo), data[Head(todo)],
            [d \in DOMAIN all \cup {Head(todo)} |->
                IF d = Head(todo)
                THEN [key \in DOMAIN data[d] |->
                        data[d][key] - GetOr0(last, key)]
                ELSE all[d]])

\* variant: the rows are returned as they were recorded
deltas_are_rows(self) == self.data

\* RunningReport.deltas
deltas(self) ==
    DeltasLoop(self.data, sorted(DOMAIN self.data), <<>>, <<>>)

Columns == {"gains", "income"}

Amounts == {-1, 0, 2}

\* timestamps in two months of one year and in another year
ReportDates == {NearDates[1], NearDates[2], NearDates[3], FarDates[1]}

InitReport ==
    /\ mode = "RunningReport"
    /\ call \in {RunningReport(f) : f \in DateFormats}
    /\ result = <<>>
    /\ Idle

\* by_month.record(t.timestamp, ...)
Record ==
    /\ mode = "RunningReport"
    /\ call.calls < ReportRecords
    /\ \E timestamp \in ReportDates, values \in [Columns -> Amounts] :
            call' = record(call, timestamp, values)
    /\ result' = <<>>
    /\ UNCHANGED <<mode, replay_vars>>

CallDeltas ==
    /\ mode = "RunningReport"
    /\ result = <<>>
    /\ result' = <<deltas(call)>>
    /\ UNCHANGED <<mode, call, replay_vars>>

NextReport == Record \/ CallDeltas

SpecReport == InitReport /\ [][NextReport]_vars

\* time.strptime(date, date_format) of a string that strftime made: the
\* fields that the format does not have are those of 1900-01-01 00:00:00
strptime(date, date_format) ==
    IF date_format = "%Y-%m" THEN <<date[1], date[2], 1, 0, 0, 0>>
    ELSE IF date_format = "%Y" THEN <<date[1], 1, 1, 0, 0, 0>>
    ELSE <<1900, 1, 1, 0, 0, 0>>

\* variant: the first row of a bucket is kept
RECURSIVE ConsolidateLoop_keeps_first(_, _, _)
ConsolidateLoop_keeps_first(self, todo, report) ==
    IF todo = <<>> THEN report
    ELSE ConsolidateLoop_keeps_first(self, Tail(todo),
            IF strftime(report.date_format,
                        strptime(Head(todo), self.date_format))
                    \in DOMAIN report.data
            THEN report
            ELSE record(report, strptime(Head(todo), self.date_format),
                        self.data[Head(todo)]))

RECURSIVE ConsolidateLoop(_, _, _)
\* lines 1226-1227: the loop over the sorted items still to visit
ConsolidateLoop(self, todo, report) ==
    IF todo = <<>> THEN report
    ELSE ConsolidateLoop(self, Tail(todo),
            record(report, strptime(Head(todo), self.date_format),
                   self.data[Head(todo)]))

\* RunningReport.consolidate
consolidate(self, date_format) ==
    ConsolidateLoop(self, sorted(DOMAIN self.data),
                    RunningReport(date_format))

\* by_month = RunningReport("%Y-%m"), line 1478
InitConsolidate ==
    /\ mode = "RunningReport"
    /\ call = RunningReport("%Y-%m")
    /\ result = <<>>
    /\ Idle

\* by_month.consolidate('%Y') and by_month.consolidate('All time'), lines
\* 1781-1786
CallConsolidate ==
    /\ mode = "RunningReport"
    /\ result = <<>>
    /\ \E date_format \in {"%Y", "All time"} :
            result' = <<consolidate(call, date_format)>>
    /\ UNCHANGED <<mode, call, replay_vars>>

SpecConsolidate == InitConsolidate /\ [][Record \/ CallConsolidate]_vars

----------------------------------------------------------------------------
(* The store on its own: loaded from a file, then written to by            *)
(* external[key] = value; call is the history of the keys written.         *)

StoreWrites == 2    \* number of writes to the store

\* ids that share a short id, an id that has its own and an id without ':'
StoreIds == {<<"a", 0>>, <<"a", 1>>, <<"a", 2>>, <<"b", 0>>, <<"a">>}

\* the files load_external may find: any entries under any of these ids
StoreFiles ==
    UNION {[keys -> {[type |-> "gift", usd |-> 10]}] :
                keys \in SUBSET (StoreIds \ {<<"a", 2>>})}

InitStore ==
    /\ mode = "FuzzyDict"
    /\ call = <<>>
    /\ result = <<>>
    /\ InitMain
    /\ method = "fifo"
    /\ nowash = FALSE
    /\ dates = <<>>
    /\ non_interactive = FALSE
    /\ max_timestamp = NoLimit
    /\ dropped = <<>>
    /\ ignore_old_coinbase = "auto"
    /\ external \in {FuzzyDict(actual) : actual \in StoreFiles}
    /\ prompts = <<>>
    /\ written = <<>>

\* external[key] = value
StoreSet ==
    /\ mode = "FuzzyDict"
    /\ Len(call) < StoreWrites
    /\ \E key \in StoreIds :
        /\ external' = setitem(external, key,
                                [type |-> "transfer_out", usd |-> 0])
        /\ call' = Append(call, key)
    /\ UNCHANGED <<mode, result, method, nowash, dates, ledger, status,
                   total_cost, account_btc, income, gross_receipts,
                   gift_txns, gains, long_term_gains, long_term_gifts,
                   total_buy, total_sell, total_cost_basis,
                   long_term_cost_basis, long_term_gift_cost_basis,
                   recent_sells, dissallowed_loss, lots, transfered_out,
                   short_btc, non_interactive, max_timestamp,
                   ignore_old_coinbase, dropped, prompts, written>>

SpecStore == InitStore /\ [][StoreSet]_vars

----------------------------------------------------------------------------
(* Claims about the replay loop *)

\* C1: after every replayed event and for every account a, account_btc[a]
\* is the BTC of the lots held in lots[a] minus the BTC of the uncovered
\* shorts of a, which is zero for an account that never sold from an empty
\* inventory (only 'bitcoind' may).
C1_BalanceIsInventoryLessShorts ==
    mode = "replay" =>
        \A a \in Accounts :
            /\ account_btc[a] = SumBtc(lots[a]) - short_btc[a]
            /\ short_btc[a] >= 0
            /\ a # BitcoindAccount => short_btc[a] = 0

\* a transfer that lost a fee in transit has been replayed and 'bitcoind'
\* holds lots while a short of it is still uncovered
C1_Witness ==
    /\ Replayed
    /\ \E i \in 1..Len(ledger) :
            ledger[i].type = "transfer" /\ ledger[i].fee_btc > 0
    /\ short_btc[BitcoindAccount] > 0
    /\ lots[BitcoindAccount] # <<>>

\* C2: after replay, total_cost is the sum of usd - dissallowed_loss over
\* all surviving lots, within 2 cents per surviving lot.
C2_TotalCostIsSurvivingBasis ==
    Replayed =>
        Abs(total_cost
            - SumOver([a \in Accounts |-> SumUsd(lots[a]) - SumLoss(lots[a])],
                      Accounts))
          <= 2 * NumHeldLots

\* C3: after every replayed event the usd of the lots of every account sum
\* to at least 0 and the dissallowed_loss accumulator is at least 0.
C3_NonNegativeBasisAndLoss ==
    Replayed =>
        /\ \A a \in Accounts : SumUsd(lots[a]) >= 0
        /\ dissallowed_loss >= 0

\* the ledger is: buy q for c, sell the same q from the same account for
\* p < c, buy q again within 30 days of the sale
IsWashScenario ==
    /\ Replayed
    /\ ~nowash
    /\ Len(ledger) = 3
    /\ IsBuy(ledger[1]) /\ IsSale(ledger[2]) /\ IsBuy(ledger[3])
    /\ ledger[2].account = ledger[1].account
    /\ ledger[2].btc = -ledger[1].btc
    /\ ledger[3].btc = ledger[1].btc
    /\ ledger[2].usd < -ledger[1].usd
    /\ mktime(ledger[3].timestamp) - mktime(ledger[2].timestamp)
            <= 30 * 24 * 60 * 60

\* C5: in the wash scenario gains = 0, dissallowed_loss = c - p and the one
\* surviving lot has usd = b + (c - p) and dissallowed_loss = c - p.
C5_WashSaleCarriesLoss ==
    IsWashScenario =>
        LET c == -ledger[1].usd
            p == ledger[2].usd
            b == -ledger[3].usd
        IN  /\ gains = 0
            /\ dissallowed_loss = c - p
            /\ NumHeldLots = 1
            /\ \A l \in HeldLots :
                    l.usd = b + (c - p) /\ l.dissallowed_loss = c - p

C5_Witness == IsWashScenario /\ ledger[3].usd # ledger[1].usd

\* the ledger is: buy q for c, sell the same q from the same account for p
IsBuyThenSell ==
    /\ Replayed
    /\ Len(ledger) = 2
    /\ IsBuy(ledger[1]) /\ IsSale(ledger[2])
    /\ ledger[2].account = ledger[1].account
    /\ ledger[2].btc = -ledger[1].btc

\* the sale time s is more than one calendar year after the buy time b
MoreThanAYear(b, s) ==
    LexLess(<<b[1] + 1, b[2], b[3], b[4], b[5], b[6]>>, s)

\* C6: after a buy of q for c and a sale of q for p, under every selection
\* policy, gains = p - c, total_cost = 0 and long_term_gains is p - c when
\* the sale is more than one calendar year after the buy and 0 otherwise.
C6_BuyThenSell ==
    IsBuyThenSell =>
        LET c == -ledger[1].usd
            p == ledger[2].usd
        IN  /\ gains = p - c
            /\ total_cost = 0
            /\ long_term_gains =
                    IF MoreThanAYear(ledger[1].timestamp, ledger[2].timestamp)
                    THEN p - c ELSE 0

C6_Witness ==
    /\ IsBuyThenSell
    /\ method = "newest"
    /\ MoreThanAYear(ledger[1].timestamp, ledger[2].timestamp)
    /\ long_term_gains < 0

\* the bag of the lots of an inventory
BagOf(data) ==
    [l \in Range(data) |-> Cardinality({i \in 1..Len(data) : data[i] = l})]

\* lot m is a part of lot l: same acquisition timestamp and originating
\* event, and the usd of m within a cent of its proportional share of l.usd
IsPartOf(m, l) ==
    /\ m.timestamp = l.timestamp
    /\ m.transaction = l.transaction
    /\ m.btc <= l.btc
    /\ Abs(m.usd * l.btc - l.usd * m.btc) <= l.btc

\* this step replays an internal transfer of x BTC with fee f from an
\* account S that holds at least x + f to another account D whose balance
\* is not negative
IsCoveredTransfer ==
    /\ mode = "replay" /\ status' = "running"
    /\ Len(ledger') = Len(ledger) + 1
    /\ LET t == ledger'[Len(ledger')]
       IN  /\ t.type = "transfer"
           /\ t.dest_account # t.account
           /\ SumBtc(lots[t.account]) >= -t.btc + t.fee_btc
           /\ account_btc[t.dest_account] >= 0

\* C10: replaying such a transfer takes x + f from account_btc[S], adds
\* exactly x to account_btc[D], so that total holdings fall by f, and adds
\* to D's inventory lots of x BTC in total, each with the acquisition
\* timestamp and the proportional usd basis of the S lot it came from.
C10_TransferMovesLots ==
    [][IsCoveredTransfer =>
        LET t == ledger'[Len(ledger')]
            S == t.account
            D == t.dest_account
            x == -t.btc
            f == t.fee_btc
            moved == BagOf(lots'[D]) (-) BagOf(lots[D])
        IN  /\ account_btc'[S] = account_btc[S] - (x + f)
            /\ account_btc'[D] = account_btc[D] + x
            /\ SumOver(account_btc', Accounts)
                    = SumOver(account_btc, Accounts) - f
            /\ BagOf(lots[D]) \sqsubseteq BagOf(lots'[D])
            /\ SumBtc(lots'[D]) = SumBtc(lots[D]) + x
            /\ \A m \in BagToSet(moved) :
                    \E l \in Range(lots[S]) : IsPartOf(m, l)]_vars

\* the same without the usd basis
C10_TransferMovesBtc ==
    [][IsCoveredTransfer =>
        LET t == ledger'[Len(ledger')]
            S == t.account
            D == t.dest_account
            x == -t.btc
            f == t.fee_btc
            moved == BagOf(lots'[D]) (-) BagOf(lots[D])
        IN  /\ account_btc'[S] = account_btc[S] - (x + f)
            /\ account_btc'[D] = account_btc[D] + x
            /\ BagOf(lots[D]) \sqsubseteq BagOf(lots'[D])
            /\ SumBtc(lots'[D]) = SumBtc(lots[D]) + x
            /\ \A m \in BagToSet(moved) :
                    \E l \in Range(lots[S]) :
                        /\ m.timestamp = l.timestamp
                        /\ m.transaction = l.transaction]_vars

----------------------------------------------------------------------------
(* Claims about Lot.split and is_long_term *)

Min(a, b) == IF a < b THEN a ELSE b

\* C4: for every lot and every n with 0 <= n <= lot.btc, split(n) returns
\* (head, tail) with head.btc = min(n, lot.btc) and with the btc, the usd
\* and the disallowed loss of head and tail adding up to those of the lot,
\* an absent part counting as zero; split(0) returns (none, the lot) and
\* split(n) with n >= lot.btc returns (the lot, none).
C4_SplitConserves ==
    (mode = "split" /\ result # <<>>) =>
        LET lot == call.self
            n == call.btc
            head == result[1]
            tail == result[2]
        IN  /\ n <= lot.btc =>
                /\ head.btc = Min(n, lot.btc)
                /\ head.btc + tail.btc = lot.btc
                /\ head.usd + tail.usd = lot.usd
                /\ head.dissallowed_loss + tail.dissallowed_loss
                        = lot.dissallowed_loss
            /\ n = 0 => (head = None /\ tail = lot)
            /\ n >= lot.btc => (head = lot /\ tail = None)

\* a lot that carries a wash loss has been split into two proper parts
\* whose usd shares are rounded
C4_Witness ==
    /\ mode = "split" /\ result # <<>>
    /\ call.self.dissallowed_loss > 0
    /\ result[1] # None /\ result[2] # None
    /\ result[1].usd * call.self.price[2] # call.self.price[1] * call.btc

\* t is lexicographically before u, on (Y, M, D, h, m, s)
Before(t, u) ==
    \E i \in 1..6 : t[i] < u[i] /\ \A j \in 1..(i - 1) : t[j] = u[j]

\* the day after the date of t, at the time of t
DayAfter(t) ==
    IF t[3] < DaysInMonth(t[1], t[2]) THEN [t EXCEPT ![3] = @ + 1]
    ELSE IF t[2] < 12 THEN [t EXCEPT ![2] = @ + 1, ![3] = 1]
    ELSE [t EXCEPT ![1] = @ + 1, ![2] = 1, ![3] = 1]

\* C7: is_long_term(buy, sell) is true iff (Y+1, M, D, h, m, s) of the buy
\* timestamp is strictly before (Y, M, D, h, m, s) of the sell timestamp
\* in lexicographic order; a sale exactly one calendar year after the buy
\* is not long-term and a sale one day after that is.
C7_LongTermIsLexicographic ==
    (mode = "is_long_term" /\ result # <<>>) =>
        LET b == call.buy.timestamp
            s == call.sell.timestamp
            anniversary == [b EXCEPT ![1] = @ + 1]
        IN  /\ result[1] <=> Before(anniversary, s)
            /\ s = anniversary => ~result[1]
            /\ (anniversary[3] <= DaysInMonth(anniversary[1], anniversary[2])
                    /\ s = DayAfter(anniversary)) => result[1]

\* is_long_term has answered for a sale on the day after the anniversary
\* of the buy, at an earlier time of day
C7_Witness ==
    /\ mode = "is_long_term" /\ result # <<>>
    /\ call.sell.timestamp[1] = call.buy.timestamp[1] + 1
    /\ call.sell.timestamp[2] = call.buy.timestamp[2]
    /\ call.sell.timestamp[3] = call.buy.timestamp[3] + 1
    /\ call.sell.timestamp[4] < call.buy.timestamp[4]
    /\ result[1]

----------------------------------------------------------------------------
(* Claims about match_transactions *)

\* C8: transfer matching is idempotent: given what it returned for a
\* ledger, match_transactions returns the same events, matches no further
\* pair and modifies no event.
C8_MatchIsIdempotent ==
    (mode = "match_transactions" /\ Len(result) >= 2) =>
        /\ ~result[2].raised
        /\ result[2].pairs = <<>>
        /\ BagOf(result[2].all) = BagOf(result[1].all)

\* the txid pass has paired withdrawal w of ledger r.given with deposit d
TxidPairs(r) ==
    {r.pairs[k] : k \in (r.amount_pairs + 1)..Len(r.pairs)}

\* C9: when the txid pass pairs a withdrawal w with the single deposit d
\* that shares its txid, the transfer has fee_btc = |w.btc| - d.btc and a
\* btc field of magnitude |w.btc|.
C9_TxidTransferSendsWithdrawal ==
    (mode = "match_transactions" /\ Len(result) >= 1) =>
        \A p \in TxidPairs(result[1]) :
            LET w == result[1].given[p.withdrawal]
                d == result[1].given[p.deposit]
                transfer == result[1].objs[p.transfer]
            IN  /\ transfer.fee_btc = Abs(w.btc) - d.btc
                /\ Abs(transfer.btc) = Abs(w.btc)

\* C9, as the code has it: the transfer has fee_btc = |w.btc| - d.btc and
\* a btc field of magnitude d.btc = |w.btc| - fee_btc, the amount received.
C9_TxidTransferCarriesDeposit ==
    (mode = "match_transactions" /\ Len(result) >= 1) =>
        \A p \in TxidPairs(result[1]) :
            LET w == result[1].given[p.withdrawal]
                d == result[1].given[p.deposit]
                transfer == result[1].objs[p.transfer]
            IN  /\ transfer.fee_btc = Abs(w.btc) - d.btc
                /\ transfer.btc = -d.btc
                /\ Abs(transfer.btc) = Abs(w.btc) - transfer.fee_btc

\* the txid pass has paired a withdrawal with a smaller deposit
C9_Witness ==
    /\ mode = "match_transactions" /\ Len(result) >= 1
    /\ \E p \in TxidPairs(result[1]) :
            Abs(result[1].given[p.withdrawal].btc)
                > result[1].given[p.deposit].btc

----------------------------------------------------------------------------
(* Further claims about the replay loop *)

\* this step replays the event t = all[ix] to its end
Replays(type) ==
    /\ mode = "replay" /\ status' = "running"
    /\ Len(ledger') = Len(ledger) + 1
    /\ ledger'[Len(ledger')].type = type

\* C11: replaying an internal transfer leaves gains, long_term_gains,
\* long_term_gifts, total_sell, total_cost_basis, long_term_cost_basis,
\* income, gross_receipts, dissallowed_loss and recent_sells as they were.
C11_TransferRecognisesNothing ==
    [][Replays("transfer") =>
        UNCHANGED <<gains, long_term_gains, long_term_gifts, total_sell,
                    total_cost_basis, long_term_cost_basis, income,
                    gross_receipts, dissallowed_loss, recent_sells>>]_vars

\* a transfer has brought to a short 'bitcoind' a lot that cost something,
\* after a sale was recorded in recent_sells
C11_Witness ==
    /\ Replayed
    /\ Len(ledger) = 3
    /\ ledger[3].type = "transfer"
    /\ ledger[3].dest_account = BitcoindAccount
    /\ IsBuy(ledger[1]) /\ ledger[1].account = "ex"
    /\ IsSale(ledger[2]) /\ ledger[2].account = BitcoindAccount
    /\ recent_sells # <<>>
    /\ gains # 0

\* C12: replaying one ledger of trades under fifo and under lifo gives
\* equal total_buy, equal total_sell and, at any market price, an equal
\* sum gains + unrealized_gains.
C12_PoliciesAgreeOnTotal ==
    mode = "policies" =>
        /\ result["fifo"].total_buy = result["lifo"].total_buy
        /\ result["fifo"].total_sell = result["lifo"].total_sell
        /\ \A market_price \in MarketPrices :
                result["fifo"].gains
                    + unrealized_gains(result["fifo"], market_price)
                = result["lifo"].gains
                    + unrealized_gains(result["lifo"], market_price)

RECURSIVE Balance(_)
\* the BTC balance after the trades of all
Balance(all) ==
    IF all = <<>> THEN 0
    ELSE all[Len(all)].btc + Balance(SubSeq(all, 1, Len(all) - 1))

\* no trade of all sold more than was held
NeverShort(all) ==
    \A k \in 1..Len(all) : Balance(SubSeq(all, 1, k)) >= 0

\* the same for the ledgers where no trade sells more than is held
C12_PoliciesAgreeWithoutShorts ==
    (mode = "policies" /\ NeverShort(call)) =>
        /\ result["fifo"].total_buy = result["lifo"].total_buy
        /\ result["fifo"].total_sell = result["lifo"].total_sell
        /\ \A market_price \in MarketPrices :
                result["fifo"].gains
                    + unrealized_gains(result["fifo"], market_price)
                = result["lifo"].gains
                    + unrealized_gains(result["lifo"], market_price)

\* both runs sold everything that was bought, out of different lots
C12_Liquidated ==
    /\ mode = "policies"
    /\ NeverShort(call)
    /\ Len(call) >= 4
    /\ Balance(call) = 0
    /\ result["fifo"].long_term_gains = 0
    /\ result["fifo"].recent_sells # result["lifo"].recent_sells

\* the BTC the last event of the ledger l takes out of its account
Disposes(l) ==
    IF l[Len(l)].btc < 0 THEN -l[Len(l)].btc + l[Len(l)].fee_btc ELSE 0

\* C15: replay continues past an event only with account_btc >= 0 on every
\* account other than 'bitcoind': a disposal, fee_btc included, of more than
\* such an account holds ends the run, and a zero-cost lot for the
\* uncovered amount is made for 'bitcoind' and for no other account.
C15_OnlyBitcoindGoesShort ==
    [][(mode = "replay" /\ status' = "running"
            /\ Len(ledger') = Len(ledger) + 1) =>
        LET a == ledger'[Len(ledger')].account
            out == Disposes(ledger')
        IN  /\ \A b \in Accounts \ {BitcoindAccount} :
                    account_btc'[b] >= 0 /\ short_btc'[b] = short_btc[b]
            /\ a # BitcoindAccount => out <= SumBtc(lots[a])
            /\ (a = BitcoindAccount /\ out > SumBtc(lots[a])) =>
                    short_btc'[a] = short_btc[a] + out - SumBtc(lots[a])]_vars

\* the run ended on a disposal from 'ex', which holds lots, after
\* 'bitcoind' was let go short
C15_Witness ==
    /\ mode = "replay"
    /\ status = "AssertionError"
    /\ lots["ex"] # <<>>
    /\ short_btc[BitcoindAccount] > 0

\* this step replays an event that brings BTC in
Acquires ==
    /\ mode = "replay" /\ status' = "running"
    /\ Len(ledger') = Len(ledger) + 1
    /\ ledger'[Len(ledger')].btc > 0

\* C20: with --nowash, after every event dissallowed_loss is 0 and no lot
\* held has a dissallowed_loss, and no acquisition adds anything to gains:
\* gains stays, or falls by the cost of what covers a short.
C20_NoWashNoLoss ==
    [][(mode = "replay" /\ nowash) =>
        /\ dissallowed_loss' = 0
        /\ \A a \in Accounts : \A i \in 1..Len(lots'[a]) :
                lots'[a][i].dissallowed_loss = 0
        /\ Acquires =>
                /\ gains' <= gains
                /\ account_btc'[ledger'[Len(ledger')].account] >= 0
                        => gains' = gains]_vars

\* with --nowash: a lot was sold at a loss and the same amount bought back
\* within 30 days
C20_Witness ==
    /\ Replayed
    /\ nowash
    /\ Len(ledger) = 3
    /\ IsBuy(ledger[1]) /\ IsSale(ledger[2]) /\ IsBuy(ledger[3])
    /\ ledger[2].account = ledger[1].account
    /\ ledger[3].account = ledger[1].account
    /\ ledger[2].btc = -ledger[1].btc
    /\ ledger[3].btc = ledger[1].btc
    /\ ledger[2].usd < -ledger[1].usd
    /\ mktime(ledger[3].timestamp) - mktime(ledger[2].timestamp)
            <= 30 * 24 * 60 * 60
    /\ gains < 0

----------------------------------------------------------------------------
(* Claims about RunningReport *)

RECURSIVE SumColumn(_, _, _)
\* the sum of rows[d][key] over the dates d of S
SumColumn(rows, key, S) ==
    IF S = {} THEN 0
    ELSE LET d == CHOOSE x \in S : TRUE
         IN  rows[d][key] + SumColumn(rows, key, S \ {d})

\* C13: after any sequence of record calls with rows of the same columns,
\* the rows deltas() returns sum, in every column, to the cumulative value
\* recorded in the last bucket in sorted order.
C13_DeltasSumToLastRow ==
    (mode = "RunningReport" /\ result # <<>> /\ call.data # <<>>) =>
        LET dates_sorted == sorted(DOMAIN call.data)
            final == call.data[dates_sorted[Len(dates_sorted)]]
        IN  /\ DOMAIN result[1] = DOMAIN call.data
            /\ \A key \in Columns :
                    SumColumn(result[1], key, DOMAIN result[1]) = final[key]

\* deltas() was called on a report of three buckets whose rows differ
C13_Witness ==
    /\ mode = "RunningReport" /\ result # <<>>
    /\ Cardinality(DOMAIN call.data) = 3
    /\ \A d, e \in DOMAIN call.data : d # e => call.data[d] # call.data[e]
    /\ \E d \in DOMAIN call.data : result[1][d]["gains"] < -1

----------------------------------------------------------------------------
(* Claims about the classification store *)

\* the stored keys that have the short id of k
SameShort(k) ==
    {key \in DOMAIN external.actual : short_id(key) = short_id(k)}

\* what the claim says of a lookup of k
LookupAsStated(k) ==
    /\ contains(external, k) <=>
            (k \in DOMAIN external.actual \/ Cardinality(SameShort(k)) = 1)
    /\ (Cardinality(SameShort(k)) >= 2 /\ k \notin DOMAIN external.actual)
            => ~contains(external, k)
    /\ contains(external, k) <=> getitem(external, k) # KeyError

\* C16: after any sequence of writes to the store, a lookup of k succeeds
\* iff k is a stored key or exactly one stored key has the short id of k;
\* when two distinct stored ids share a short id, a lookup by a non-stored
\* id with that short id fails; membership and retrieval agree.
C16_LookupAfterWrites ==
    mode = "FuzzyDict" => \A k \in StoreIds : LookupAsStated(k)

\* the same of the store as it was loaded, before any write
C16_LookupAsLoaded ==
    (mode = "FuzzyDict" /\ call = <<>>) =>
        \A k \in StoreIds : LookupAsStated(k)

\* membership and retrieval agree after any writes
C16_MembershipIsRetrieval ==
    mode = "FuzzyDict" =>
        \A k \in StoreIds :
            contains(external, k) <=> getitem(external, k) # KeyError

----------------------------------------------------------------------------
(* Claims about deposits and withdrawals that the store does not know *)

\* C14: with --non_interactive, a deposit, withdraw or fee event of nonzero
\* btc that has no entry in the store ends the run: no step replays such
\* an event and leaves the run going.
C14_UnclassifiedIsFatal ==
    [][(mode = "replay" /\ non_interactive /\ status' = "running"
            /\ Len(ledger') = Len(ledger) + 1) =>
        LET t == ledger'[Len(ledger')]
        IN  (t.type \in {"deposit", "withdraw", "fee"} /\ t.btc # 0)
                => contains(external, t.id)]_vars

\* the ids whose classification line 1567 recorded in this run
Recorded == {prompts[k].id : k \in {i \in 1..Len(prompts) :
                                        prompts[i].at = "note"}}

\* the option understood at the last prompt shown
LastReply == IF prompts = <<>> THEN "" ELSE prompts[Len(prompts)].reply

\* what the store file was given, by how the run stands
Flushed ==
    /\ status = "running" => written = <<>>
    /\ (status = "SystemExit" /\ LastReply = "quit") =>
            /\ Len(written) = 1
            /\ Recorded \subseteq DOMAIN written[1]
            /\ written[1] = external.actual
    /\ (status = "SystemExit" /\ LastReply = "abort") => written = <<>>
    /\ status = "done" =>
            /\ Len(written) = 1
            /\ Recorded \subseteq DOMAIN written[1]
            /\ written[1] = external.actual
            /\ Len(ledger) = Len(dates)

\* C17: in interactive mode, on the answer 'quit' the store is written with
\* every classification recorded earlier in the run and the process exits;
\* on 'abort' it exits without writing; after either no further event is
\* replayed.  A run that completes writes the store once, after the last
\* event.
C17_QuitFlushesAbortDoesNot ==
    [][(mode = "replay" /\ ~non_interactive) =>
        /\ status # "SystemExit"
        /\ Flushed'
        /\ status' = "SystemExit" => LastReply' \in {"quit", "abort"}]_vars

\* a classification was recorded and the next prompt answered 'quit'
C17_Witness ==
    /\ mode = "replay" /\ ~non_interactive
    /\ status = "SystemExit"
    /\ LastReply = "quit"
    /\ Recorded # {}
    /\ Len(written) = 1

\* C18: with --non_interactive, input() is never called, nothing is added
\* to the store during replay and the store file is never written.
C18_BatchRunAsksAndWritesNothing ==
    [][(mode = "replay" /\ non_interactive) =>
        /\ prompts' = <<>>
        /\ external' = external
        /\ written' = <<>>]_vars

\* a batch run went through a deposit and a withdrawal that the store does
\* not know, to its end
C18_Witness ==
    /\ mode = "replay" /\ non_interactive
    /\ status = "done"
    /\ Len(ledger) = 2
    /\ ledger[1].type = "deposit" /\ ledger[1].btc > 0
    /\ ledger[2].type = "withdraw" /\ ledger[2].btc < 0
    /\ \A i \in 1..2 : ~contains(external, ledger[i].id)

----------------------------------------------------------------------------
(* Claims about --end_date *)

\* later than end_date 23:59:59, as a date and time of day
LaterThanEnd(timestamp) == LexLess(parts(max_timestamp), parts(timestamp))

\* no event later than end_date 23:59:59 is ever applied
C19_NothingLaterIsApplied ==
    (mode = "replay" /\ max_timestamp # NoLimit) =>
        \A i \in 1..Len(ledger) : ~LaterThanEnd(ledger[i].timestamp)

\* C19: with end_date set, no event later than end_date 23:59:59 changes
\* anything, and every event up to the first such event is applied: at the
\* end of the run the events left out are exactly those later than end_date
\* 23:59:59.
C19_StopsAtFirstLaterEvent ==
    (mode = "replay" /\ max_timestamp # NoLimit /\ status = "done") =>
        /\ \A i \in 1..Len(ledger) : ~LaterThanEnd(ledger[i].timestamp)
        /\ Len(ledger) = Len(dates)
        /\ \A k \in 1..Len(dropped) : LaterThanEnd(dropped[k])

----------------------------------------------------------------------------
(* Claims about the parsers *)

\* the flag asks to skip old exports
AsksToSkip == lower(Resolved(ignore_old_coinbase, call)) \in {"true", "yes"}

\* the flag asks to parse old exports
AsksToParse ==
    lower(Resolved(ignore_old_coinbase, call)) \in {"false", "no"}

\* C21: the rows of an old-format Coinbase export are parsed into events
\* when ignore_old_coinbase is 'false', or 'auto' with no downloaded file
\* among the inputs, and skipped only when it is 'true', or 'auto' with a
\* downloaded file.
C21_FlagIsAuthoritative ==
    mode = "parse_all" =>
        \A i \in 1..Len(result) :
            call[i].kind = "old" =>
                /\ AsksToParse => result[i] = call[i].rows
                /\ result[i] = 0 => AsksToSkip

\* old exports are skipped when the flag asks for it
C21_SkippedWhenAsked ==
    mode = "parse_all" =>
        \A i \in 1..Len(result) :
            (call[i].kind = "old" /\ AsksToSkip) => result[i] = 0

----------------------------------------------------------------------------
(* Claims about the order of events *)

Compared == mode = "lt" /\ result # <<>>

\* the events compared differ in (timestamp, btc, id)
AllDiffer == \A i, j \in 1..3 : i # j => ~TxnEq(call[i], call[j])

\* on the three events compared, < is asymmetric, total and transitive
StrictTotalOrder ==
    /\ \A i, j \in 1..3 : i # j => (result[i][j] <=> ~result[j][i])
    /\ \A i, j, k \in 1..3 :
        (result[i][j] /\ result[j][k]) => result[i][k]

\* C22: Transaction.__lt__ is a strict total order on events that differ in
\* (timestamp, btc, id): exactly one of a < b, b < a holds, and a < b and
\* b < c imply a < c, transfers into each other's accounts included.
C22_LessIsStrictTotalOrder ==
    (Compared /\ AllDiffer) => StrictTotalOrder

\* it is one on events none of which is a transfer
C22_OrderWithoutTransfers ==
    (Compared /\ AllDiffer /\ \A i \in 1..3 : call[i].type # "transfer")
        => StrictTotalOrder

----------------------------------------------------------------------------
(* Claims about the wash-sale queue *)

\* a step replays an acquisition with wash sales tracked
AcquiresWashed == Acquires /\ ~nowash

\* the account of the event a step replays
Account == ledger'[Len(ledger')].account

\* a step attaches no loss: dissallowed_loss and the losses carried by the
\* lots are as they were, gains does not rise (it stays unless the lot
\* covers a short) and, on an account that is not short, the basis of the
\* lots grows by what was paid
NoWashAdjustment ==
    /\ dissallowed_loss' = dissallowed_loss
    /\ \A a \in Accounts : SumLoss(lots'[a]) = SumLoss(lots[a])
    /\ gains' <= gains
    /\ account_btc[Account] >= 0 =>
            /\ gains' = gains
            /\ SumUsd(lots'[Account]) - SumUsd(lots[Account])
                    = total_buy' - total_buy

\* the sale of the pair p of recent_sells made a gain
MadeGain(p) == p[2].usd < p[1].usd

\* C23 as stated: during an acquisition the pairs (rs_sell, rs_buy) with
\* rs_buy.usd >= rs_sell.usd are dropped without any adjustment to gains,
\* dissallowed_loss or the new lot's basis.
C23_DropsPairsWithBuyAtLeastSell ==
    [][(AcquiresWashed
            /\ \A k \in 1..Len(recent_sells) : ~MadeGain(recent_sells[k]))
        => NoWashAdjustment]_vars

\* C23: during an acquisition the pairs (rs_sell, rs_buy) with
\* rs_buy.usd < rs_sell.usd, the sales that made a gain, are dropped from
\* the queue without any adjustment; only pairs with
\* rs_buy.usd >= rs_sell.usd are wash-matched, and a single such pair of no
\* more BTC than is acquired, sold within 30 days, adds
\* rs_buy.usd - rs_sell.usd to dissallowed_loss.
C23_DropsPairsWithGain ==
    [][AcquiresWashed =>
        /\ (\A k \in 1..Len(recent_sells) : MadeGain(recent_sells[k])) =>
                (NoWashAdjustment /\ recent_sells' = <<>>)
        /\ dissallowed_loss' # dissallowed_loss =>
                \E k \in 1..Len(recent_sells) : ~MadeGain(recent_sells[k])
        /\ (/\ Len(recent_sells) = 1
            /\ ~MadeGain(recent_sells[1])
            /\ recent_sells[1][1].btc <= ledger'[Len(ledger')].btc
            /\ mktime(ledger'[Len(ledger')].timestamp)
                    - mktime(recent_sells[1][1].timestamp) <= WashWindow) =>
                /\ recent_sells' = <<>>
                /\ dissallowed_loss' = dissallowed_loss
                        + recent_sells[1][2].usd - recent_sells[1][1].usd]_vars

\* a lot was sold at a gain and the same amount bought back 10 days later:
\* the pair is gone and no loss was attached
C23_Witness ==
    /\ Replayed
    /\ ~nowash
    /\ Len(ledger) = 3
    /\ IsBuy(ledger[1]) /\ IsSale(ledger[2]) /\ IsBuy(ledger[3])
    /\ ledger[2].account = ledger[1].account
    /\ ledger[3].account = ledger[1].account
    /\ ledger[2].btc = -ledger[1].btc
    /\ ledger[3].btc = ledger[1].btc
    /\ ledger[2].usd > -ledger[1].usd
    /\ mktime(ledger[3].timestamp) - mktime(ledger[2].timestamp) < WashWindow
    /\ recent_sells = <<>>
    /\ dissallowed_loss = 0

\* the sale of the pair p is more than 30 days earlier than timestamp
TooOld(p, timestamp) ==
    mktime(p[1].timestamp) < mktime(timestamp) - 30 * 24 * 60 * 60

\* C24: no wash-sale adjustment is made against a sale more than 30 days
\* earlier than the acquisition: when every pair of recent_sells is that
\* old the acquisition attaches no loss and empties the queue, a loss is
\* attached only when some pair is not, and a pair that old at the head of
\* the queue is not in the queue afterwards.
C24_OldSalesAreNeverMatched ==
    [][AcquiresWashed =>
        LET timestamp == ledger'[Len(ledger')].timestamp
        IN  /\ (\A k \in 1..Len(recent_sells) :
                    TooOld(recent_sells[k], timestamp)) =>
                    (NoWashAdjustment /\ recent_sells' = <<>>)
            /\ dissallowed_loss' # dissallowed_loss =>
                    \E k \in 1..Len(recent_sells) :
                        ~TooOld(recent_sells[k], timestamp)
            /\ (recent_sells # <<>> /\ TooOld(recent_sells[1], timestamp))
                    => \A k \in 1..Len(recent_sells') :
                            recent_sells'[k] # recent_sells[1]]_vars

\* a lot was sold at a loss and the same amount bought back more than 30
\* days later: the pair is gone and no loss was attached
C24_Witness ==
    /\ Replayed
    /\ ~nowash
    /\ Len(ledger) = 3
    /\ IsBuy(ledger[1]) /\ IsSale(ledger[2]) /\ IsBuy(ledger[3])
    /\ ledger[2].account = ledger[1].account
    /\ ledger[3].account = ledger[1].account
    /\ ledger[2].btc = -ledger[1].btc
    /\ ledger[3].btc = ledger[1].btc
    /\ ledger[2].usd < -ledger[1].usd
    /\ mktime(ledger[3].timestamp) - mktime(ledger[2].timestamp) > WashWindow
    /\ recent_sells = <<>>
    /\ dissallowed_loss = 0

----------------------------------------------------------------------------
(* Further claims about match_transactions *)

\* match_transactions has returned r for the ledger it was first given
Matched == mode = "match_transactions" /\ Len(result) >= 1

\* C25: every transfer made by the txid pass has fee_btc >= 0, whatever the
\* withdrawal and the deposit that share a txid, a deposit larger than the
\* withdrawal included.
C25_TxidFeeIsNonNegative ==
    Matched =>
        \A p \in TxidPairs(result[1]) :
            result[1].objs[p.transfer].fee_btc >= 0

\* it is for a deposit that is no larger than the withdrawal
C25_TxidFeeOfSmallerDeposit ==
    Matched =>
        \A p \in TxidPairs(result[1]) :
            result[1].given[p.deposit].btc
                    <= -result[1].given[p.withdrawal].btc
                => result[1].objs[p.transfer].fee_btc >= 0

\* the deposits matched by the first k - 1 pairs of r
MatchedBefore(r, k) == {r.pairs[j].deposit : j \in 1..(k - 1)}

\* the predicate of the amount pass: deposit d can be paired with w
Pairable(w, d) ==
    /\ d.type = "deposit"
    /\ d.btc # 0
    /\ d.btc = -w.btc
    /\ d.account # w.account
    /\ Abs(mktime(d.timestamp) - mktime(w.timestamp))
            < transfer_window_hours * 3600

\* the k-th pair of r is as the amount pass is said to make it
AmountPairAsStated(r, k) ==
    LET w == r.given[r.pairs[k].withdrawal]
        d == r.given[r.pairs[k].deposit]
        transfer == r.objs[r.pairs[k].transfer]
    IN  /\ w.type = "withdraw" /\ w.btc # 0
        /\ Pairable(w, d)
        /\ r.pairs[k].deposit \notin MatchedBefore(r, k)
        /\ \A i \in 1..(r.pairs[k].deposit - 1) :
                Pairable(w, r.given[i]) => i \in MatchedBefore(r, k)
        /\ transfer = Txn(w.timestamp, "transfer", w.btc, 0, w.fee_usd,
                          w.fee_btc, NoId, w.account, d.account, "")

\* the objects that the amount pass of r took out of the ledger
GoneByAmount(r) == UNION {r.pairs[k].gone : k \in 1..r.amount_pairs}

\* withdrawal i of the ledger has no deposit it can be paired with
Unpairable(r, i) ==
    /\ r.given[i].type = "withdraw"
    /\ \A j \in 1..Len(r.given) : ~Pairable(r.given[i], r.given[j])

\* C26: in the amount pass a withdrawal w with nonzero btc is paired with
\* the first deposit in ledger order, not yet matched, of btc = -w.btc, of
\* another account and less than transfer_window_hours from w; the transfer
\* has w's timestamp, btc, fee_btc and fee_usd, w's account and the
\* deposit's account as dest_account.  A withdrawal that no deposit
\* satisfies the predicate for stays in the ledger.
C26_AmountPassPairsFirstDeposit ==
    Matched =>
        /\ ~result[1].raised
        /\ \A k \in 1..result[1].amount_pairs :
                AmountPairAsStated(result[1], k)
        /\ \A i \in 1..Len(result[1].given) :
                Unpairable(result[1], i) =>
                    /\ i \notin GoneByAmount(result[1])
                    /\ \A k \in 1..result[1].amount_pairs :
                            result[1].pairs[k].withdrawal # i

\* no two events of the ledger are equal under Transaction.__eq__
NoTwins(all) ==
    \A i, j \in 1..Len(all) : i # j => ~TxnEq(all[i], all[j])

\* the same for the ledgers without two events that __eq__ holds equal
C26_AmountPassWithoutTwins ==
    (Matched /\ NoTwins(result[1].given)) =>
        /\ ~result[1].raised
        /\ \A k \in 1..result[1].amount_pairs :
                AmountPairAsStated(result[1], k)
        /\ \A i \in 1..Len(result[1].given) :
                Unpairable(result[1], i) =>
                    /\ i \notin GoneByAmount(result[1])
                    /\ \A k \in 1..result[1].amount_pairs :
                            result[1].pairs[k].withdrawal # i

\* the objects of the ledger that some pair of r matched
MatchedObjects(r) ==
    {r.pairs[k].withdrawal : k \in 1..Len(r.pairs)}
        \cup {r.pairs[k].deposit : k \in 1..Len(r.pairs)}

\* C27: matching is one-to-one: no withdrawal and no deposit is consumed by
\* two transfers; each transfer removes exactly the withdrawal and the
\* deposit it matched, so the ledger shrinks by one event per match and
\* every unmatched event is still there.
C27_MatchingIsOneToOne ==
    Matched =>
        /\ ~result[1].raised
        /\ \A j, k \in 1..Len(result[1].pairs) :
                j # k =>
                    /\ result[1].pairs[j].withdrawal
                            # result[1].pairs[k].withdrawal
                    /\ result[1].pairs[j].deposit
                            # result[1].pairs[k].deposit
        /\ \A k \in 1..Len(result[1].pairs) :
                result[1].pairs[k].gone
                    = {result[1].pairs[k].withdrawal,
                       result[1].pairs[k].deposit}
        /\ Len(result[1].all)
                = Len(result[1].given) - Len(result[1].pairs)
        /\ \A i \in 1..Len(result[1].given) :
                i \notin MatchedObjects(result[1]) =>
                    \E k \in 1..Len(result[1].all) :
                        result[1].all[k] = result[1].given[i]

\* the same for the ledgers without two events that __eq__ holds equal,
\* as given and as line 1419 left their btc
C27_OneToOneWithoutTwins ==
    (Matched /\ NoTwins(result[1].given)
        /\ NoTwins(SubSeq(result[1].objs, 1, Len(result[1].given)))) =>
        /\ ~result[1].raised
        /\ \A j, k \in 1..Len(result[1].pairs) :
                j # k =>
                    /\ result[1].pairs[j].withdrawal
                            # result[1].pairs[k].withdrawal
                    /\ result[1].pairs[j].deposit
                            # result[1].pairs[k].deposit
        /\ \A k \in 1..Len(result[1].pairs) :
                result[1].pairs[k].gone
                    = {result[1].pairs[k].withdrawal,
                       result[1].pairs[k].deposit}
        /\ Len(result[1].all)
                = Len(result[1].given) - Len(result[1].pairs)

----------------------------------------------------------------------------
(* Claims about gifts and transfers out *)

\* what a step appended to a list
Added(before, after) == SubSeq(after, Len(before) + 1, Len(after))

\* a step only appended to a list
Extends(before, after) ==
    /\ Len(after) >= Len(before)
    /\ SubSeq(after, 1, Len(before)) = before

\* the lots of the pairs <<event, lot>> or <<sell, buy>> of a list
LotsOf(data) == [k \in 1..Len(data) |-> data[k][2]]

\* the lots recorded in transfered_out are those the event consumed: they
\* are entered with the event, hold the BTC disposed of, and their cost
\* basis is what total_cost_basis grew by
RecordsConsumedLots ==
    /\ Extends(transfered_out, transfered_out')
    /\ \A k \in 1..Len(Added(transfered_out, transfered_out')) :
            Added(transfered_out, transfered_out')[k][1] = Len(ledger')
    /\ SumBtc(LotsOf(Added(transfered_out, transfered_out')))
            = Disposes(ledger')
    /\ SumUsd(LotsOf(Added(transfered_out, transfered_out')))
            = total_cost_basis' - total_cost_basis

\* C28: replaying a transfer_out records every consumed lot, with its cost
\* basis, as (event, lot) in transfered_out, and leaves gains and
\* long_term_gains as they were.
C28_TransferOutDefersGain ==
    [][Replays("transfer_out") =>
        /\ RecordsConsumedLots
        /\ UNCHANGED <<gains, long_term_gains>>]_vars

\* the lots are recorded
C28_TransferOutRecordsLots ==
    [][Replays("transfer_out") => RecordsConsumedLots]_vars

\* the lots of a list that are not long-term at the time of event t
RECURSIVE ShortTerm(_, _)
ShortTerm(data, t) ==
    IF data = <<>> THEN <<>>
    ELSE IF is_long_term(Head(data), t) THEN ShortTerm(Tail(data), t)
    ELSE <<Head(data)>> \o ShortTerm(Tail(data), t)

\* a step entered the lots of data, and nothing else, into recent_sells as
\* pairs (sell, buy) of equal btc, and took their losses out of
\* dissallowed_loss
Enters(data) ==
    /\ Extends(recent_sells, recent_sells')
    /\ LotsOf(Added(recent_sells, recent_sells')) = data
    /\ \A k \in 1..Len(data) :
            /\ Added(recent_sells, recent_sells')[k][1].btc = data[k].btc
            /\ Added(recent_sells, recent_sells')[k][1].timestamp
                    = ledger'[Len(ledger')].timestamp
    /\ dissallowed_loss' = dissallowed_loss - SumLoss(data)

\* C29: the lots disposed of by a long-term gift or by a transfer_out are
\* not appended to recent_sells and do not reduce dissallowed_loss; the
\* lots disposed of by a sale, an expense or a short-term gift are appended
\* as (sell, buy) and reduce dissallowed_loss by their dissallowed_loss.
C29_GiftsAndTransfersOutAreNoSales ==
    [][(mode = "replay" /\ status' = "running"
            /\ Len(ledger') = Len(ledger) + 1
            /\ Disposes(ledger') > 0) =>
        LET t == ledger'[Len(ledger')]
        IN  /\ t.type = "transfer_out" =>
                    UNCHANGED <<recent_sells, dissallowed_loss>>
            /\ t.type = "gift" =>
                    /\ Len(gift_txns') = Len(gift_txns) + 1
                    /\ Enters(ShortTerm(gift_txns'[Len(gift_txns')][2], t))
            /\ t.type \in {"trade", "withdraw"} =>
                    /\ Enters(LotsOf(Added(recent_sells, recent_sells')))
                    /\ SumBtc(LotsOf(Added(recent_sells, recent_sells')))
                            = Disposes(ledger')]_vars

\* a lot that carries a wash-sale loss was given away a year later: it is
\* not in recent_sells and dissallowed_loss still counts its loss
C29_Witness ==
    /\ Replayed
    /\ Len(ledger) = 4
    /\ IsBuy(ledger[1]) /\ IsSale(ledger[2]) /\ IsBuy(ledger[3])
    /\ ledger[4].type = "gift"
    /\ ledger[4].account = BitcoindAccount
    /\ is_long_term(ledger[3], ledger[4])
    /\ dissallowed_loss > 0
    /\ lots[BitcoindAccount] = <<>>
    /\ recent_sells = <<>>

----------------------------------------------------------------------------
(* Claims about the purchase date of a transfer in *)

\* a step replays a deposit that the store knows as a transfer in
ReplaysTransferIn ==
    /\ mode = "replay" /\ status' = "running"
    /\ Len(ledger') = Len(ledger) + 1
    /\ ledger'[Len(ledger')].btc > 0
    /\ contains(external, ledger'[Len(ledger')].id)
    /\ getitem(external, ledger'[Len(ledger')].id).type = "transfer"

\* the lots that a step added to the inventory of the event's account
NewLots == {lots'[Account][i] : i \in 1..Len(lots'[Account])}
                \ {lots[Account][i] : i \in 1..Len(lots[Account])}

\* C30: the lot created on replay for a deposit that the store classifies
\* as a transfer in has the stored purchase_date as its acquisition
\* timestamp.
C30_LotIsAcquiredAtPurchaseDate ==
    [][ReplaysTransferIn =>
        /\ NewLots # {}
        /\ \A lot \in NewLots :
                lot.timestamp
                    = getitem(external, ledger'[Len(ledger')].id).purchase_date
      ]_vars

\* a classification recorded by this run has the event's timestamp as its
\* purchase_date, which is the timestamp of the lot the run made
C30_RecordedDateIsEventDate ==
    mode = "replay" =>
        \A i \in 1..Len(ledger) :
            ledger[i].id \in Recorded =>
                external.actual[ledger[i].id].purchase_date
                    = ledger[i].timestamp

----------------------------------------------------------------------------
(* Claims about an acquisition on an account that is short *)

Max(x, y) == IF x < y THEN y ELSE x

\* the BTC an event brings in
Bought == ledger'[Len(ledger')].btc

\* how far the event's account is short before the event
ShortBefore == -account_btc[Account]

\* C31: an acquisition of q BTC into an account whose balance before the
\* event is -s, s > 0, covers min(q, s) BTC of the short: that much is not
\* added to the inventory and max(q - s, 0) BTC is held as a lot.
C31_CoversMinOfBoughtAndShort ==
    [][(Acquires /\ ShortBefore > 0) =>
        /\ SumBtc(lots'[Account])
                = SumBtc(lots[Account]) + Max(Bought - ShortBefore, 0)
        /\ short_btc'[Account]
                = short_btc[Account] - Min(Bought, ShortBefore)]_vars

\* what push_lot does: the balance it reads already has the BTC bought
\* (line 1576), so the part that covers is min(q, max(s - q, 0)) and the
\* rest is held
C31_CoversByBalanceAfter ==
    [][(Acquires /\ ShortBefore > 0) =>
        /\ SumBtc(lots'[Account])
                = SumBtc(lots[Account]) + Bought
                    - Min(Bought, Max(ShortBefore - Bought, 0))
        /\ short_btc'[Account]
                = short_btc[Account]
                    - Min(Bought, Max(ShortBefore - Bought, 0))
        /\ nowash =>
                gains' = gains
                    - split(Lot(<<>>, Bought, total_buy' - total_buy, 0, 0),
                            ShortBefore - Bought)[1].usd]_vars

----------------------------------------------------------------------------
(* Claims about the merge of bitcoind events *)

\* what parse_all returned
Parsed == result[1]

\* the events that parse_all returned for the 'send' items of the on-chain
\* transaction txid, as the positions in the list
Sends(txid) ==
    {i \in 1..Len(Parsed) :
        /\ Parsed[i].type = "withdraw"
        /\ Parsed[i].id \div BitcoindVouts = txid}

\* the send pays several outputs: its events have different vout
PaysSeveralOutputs(txid) ==
    \E i, j \in Sends(txid) : Parsed[i].id # Parsed[j].id

\* C32: for a bitcoind send that pays several outputs in one on-chain
\* transaction (same txid, different vout), after the merge the fee is on
\* exactly one of the withdraw events and fee_btc is 0 on all the others.
C32_FeeOfSendIsCarriedOnce ==
    (mode = "bitcoind" /\ result # <<>>) =>
        \A txid \in 1..BitcoindTxids :
            (PaysSeveralOutputs(txid) /\ TxFee(txid) # 0) =>
                Cardinality({i \in Sends(txid) : Parsed[i].fee_btc # 0}) = 1

\* what the merge does: the outputs of a send have different ids, so each
\* is merged on its own and every withdraw event whose id no other event
\* has carries the fee of the transaction
C32_EveryOutputCarriesTheFee ==
    (mode = "bitcoind" /\ result # <<>>) =>
        \A i \in 1..Len(Parsed) :
            (/\ Parsed[i].type = "withdraw"
             /\ \A j \in 1..Len(Parsed) :
                    Parsed[j].id = Parsed[i].id => j = i)
            => Parsed[i].fee_btc = TxFee(Parsed[i].id \div BitcoindVouts)

----------------------------------------------------------------------------
(* Claims about RunningReport.consolidate *)

\* the report that consolidate returned
Consolidated == result[1]

\* the dates of the monthly report, sorted, and those of one year
Months == sorted(DOMAIN call.data)

MonthsOf(year) == SelectSeq(Months, LAMBDA date : date[1] = year)

RECURSIVE SumOfDeltas(_, _, _)
\* the sum of column key of the deltas all over the dates of todo
SumOfDeltas(all, todo, key) ==
    IF todo = <<>> THEN 0
    ELSE all[Head(todo)][key] + SumOfDeltas(all, Tail(todo), key)

----------------------------------------------------------------------------
(* Claims about the order of events at one instant *)

\* call[i] is a transfer out of its account into the account of call[j]
IntoAccountOf(i, j) ==
    /\ call[i].type = "transfer"
    /\ call[i].btc < 0
    /\ call[i].dest_account = call[j].account

\* the order by descending btc, then ascending id
ByAmountThenId(i, j) ==
    \/ call[j].btc < call[i].btc
    \/ call[j].btc = call[i].btc /\ call[i].id < call[j].id

\* C34: of two events with equal timestamps, a transfer (btc < 0) whose
\* dest_account is the other event's account compares before that event
\* and the other event does not compare before the transfer; in any other
\* pair the event with the larger btc compares first, and equal btc is
\* broken by ascending id.
C34_ArrivalBeforeDeparture ==
    Compared =>
        \A i, j \in 1..3 :
            (i # j /\ call[i].timestamp = call[j].timestamp) =>
                /\ IntoAccountOf(i, j) => (result[i][j] /\ ~result[j][i])
                /\ (~IntoAccountOf(i, j) /\ ~IntoAccountOf(j, i)) =>
                        (result[i][j] <=> ByAmountThenId(i, j))

\* it is so for every pair but two transfers into each other's accounts
C34_UnlessTransfersCross ==
    Compared =>
        \A i, j \in 1..3 :
            (i # j /\ call[i].timestamp = call[j].timestamp) =>
                /\ (IntoAccountOf(i, j) /\ ~IntoAccountOf(j, i)) =>
                        (result[i][j] /\ ~result[j][i])
                /\ (~IntoAccountOf(i, j) /\ ~IntoAccountOf(j, i)) =>
                        (result[i][j] <=> ByAmountThenId(i, j))

----------------------------------------------------------------------------
(* Claims about a disposal that is not a transfer *)

\* the event a step replays
Event == ledger'[Len(ledger')]

\* a step replays a trade that sells no more, fee_btc included, than the
\* lots of its account hold
SellsFromInventory ==
    /\ mode = "replay" /\ status' = "running"
    /\ Len(ledger') = Len(ledger) + 1
    /\ Event.type = "trade"
    /\ Event.btc < 0
    /\ SumBtc(lots[Account]) >= -Event.btc + Event.fee_btc

\* the lots of the account after the step that it did not hold before
Remainders ==
    {i \in 1..Len(lots'[Account]) :
        lots'[Account][i] \notin Range(lots[Account])}

\* C35: a non-transfer disposal of |btc| BTC with fee fee_btc and proceeds
\* u, usd minus fee_usd for a trade, from an account that holds as much:
\* the inventory loses exactly |btc| + fee_btc BTC, at most one lot is split
\* and its remainder put back, total_sell grows by exactly u, and
\* total_cost_basis grows by the usd of the lot pieces consumed, which is
\* the usd the inventory lost.
C35_DisposalAccounting ==
    [][SellsFromInventory =>
        /\ SumBtc(lots'[Account])
                = SumBtc(lots[Account]) - (-Event.btc + Event.fee_btc)
        /\ Cardinality(Remainders) <= 1
        /\ \A a \in Accounts \ {Account} : lots'[a] = lots[a]
        /\ total_sell' = total_sell + Event.usd - Event.fee_usd
        /\ total_cost_basis' - total_cost_basis
                = SumUsd(lots[Account]) - SumUsd(lots'[Account])
      ]_vars

\* a sale charged both fees took two lots, the second in part: the last two
\* pairs of recent_sells are of this sale, and the lot of the last one is
\* less than what its purchase bought
C35_Witness ==
    /\ mode = "replay" /\ status = "running"
    /\ Len(ledger) = 3
    /\ ledger[3].btc < 0 /\ ledger[3].fee_btc > 0 /\ ledger[3].fee_usd > 0
    /\ Len(recent_sells) >= 2
    /\ recent_sells[Len(recent_sells)][1].transaction = 3
    /\ recent_sells[Len(recent_sells) - 1][1].transaction = 3
    /\ recent_sells[Len(recent_sells)][2].btc
            < ledger[recent_sells[Len(recent_sells)][2].transaction].btc
    /\ lots[BitcoindAccount] # <<>>

----------------------------------------------------------------------------
(* Claims about the lot selectors *)

\* the lots held
Held == lots[BitcoindAccount]

\* lot a is before lot b by (timestamp, transaction)
Older(a, b) ==
    \/ LexLess(a.timestamp, b.timestamp)
    \/ a.timestamp = b.timestamp /\ a.transaction < b.transaction

\* the lot that pop returned is the one the policy names, among the lots
\* held before the call
PopsByPolicy ==
    /\ method = "fifo" => result'.lot = call[1]
    /\ method = "lifo" => result'.lot = call[Len(call)]
    /\ method = "oldest" =>
            \A k \in 1..Len(Held) : ~Older(Held[k], result'.lot)
    /\ method = "newest" =>
            \A k \in 1..Len(Held) :
                ~LexLess(result'.lot.timestamp, Held[k].timestamp)

\* len after a call
CountsLots ==
    Len(lots'[BitcoindAccount])
        = Len(Held) + (IF result'.op = "pop" THEN -1 ELSE 1)

\* C36: under fifo pop returns the lots in the order they were pushed,
\* under lifo in reverse push order, under oldest a lot with minimal
\* (timestamp, transaction) among those held, under newest a lot with
\* maximal timestamp; for all four policies pop() right after unpop(l)
\* returns l; len changes by +1 on push and unpop and by -1 on pop.
C36_SelectorOrder ==
    [][(mode = "selector" /\ result'.n = result.n + 1) =>
        /\ CountsLots
        /\ result'.op = "pop" =>
            /\ PopsByPolicy
            /\ result.op = "unpop" => result'.lot = result.lot]_vars

\* what holds of pop() after unpop(l): under fifo and lifo it returns l,
\* under oldest and newest a lot with the timestamp and transaction of l
C36_UnpoppedOrItsTwin ==
    [][(mode = "selector" /\ result'.n = result.n + 1) =>
        /\ CountsLots
        /\ result'.op = "pop" =>
            /\ PopsByPolicy
            /\ result.op = "unpop" =>
                /\ result'.lot.timestamp = result.lot.timestamp
                /\ result'.lot.transaction = result.lot.transaction
                /\ method \in {"fifo", "lifo"} => result'.lot = result.lot
      ]_vars

----------------------------------------------------------------------------
(* Claims about the price of a lot *)

\* the price of the lot is its usd / btc
PriceIsUsdPerBtc(lot) == lot.price[1] * lot.btc = lot.usd * lot.price[2]

\* C37: every lot held in an inventory has price = usd / btc, a lot whose
\* usd was increased by an attached wash-sale loss and the tail of an
\* earlier split included.
C37_LotPriceIsUsdPerBtc ==
    mode = "replay" => \A lot \in HeldLots : PriceIsUsdPerBtc(lot)

\* it is so for the lots that carry no wash-sale loss, tails of splits
\* included, and for every lot under --nowash
C37_PriceOfLotsWithoutLoss ==
    mode = "replay" =>
        /\ \A lot \in HeldLots :
                lot.dissallowed_loss = 0 => PriceIsUsdPerBtc(lot)
        /\ nowash => \A lot \in HeldLots : PriceIsUsdPerBtc(lot)

----------------------------------------------------------------------------
(* Claims about the dissallowed_loss accumulator *)

\* the dissallowed_loss of all the lots held
LossOnLotsHeld == SumOver([a \in Accounts |-> SumLoss(lots[a])], Accounts)

\* C38: after every replayed event the accumulator dissallowed_loss is the
\* sum of dissallowed_loss over the lots held in all inventories, for any
\* mix of wash sales, sales, gifts, transfer_outs, transfers with fees and
\* short covers.
C38_LossIsOnLotsHeld ==
    Replayed => dissallowed_loss = LossOnLotsHeld

\* it is so after trades none of which sold more than was held
C38_LossIsOnLotsOfTrades ==
    (Replayed /\ NeverShort(ledger)
        /\ \A k \in 1..Len(ledger) : IsTrade(ledger[k]))
    => dissallowed_loss = LossOnLotsHeld

----------------------------------------------------------------------------
(* Claims about ledgers of trades *)

RECURSIVE Inventory(_, _)
\* the BTC left in account a after the trades of all, fee_btc of the sales
\* taken out
Inventory(all, a) ==
    IF all = <<>> THEN 0
    ELSE (IF all[Len(all)].account # a THEN 0
          ELSE all[Len(all)].btc
                - (IF all[Len(all)].btc < 0 THEN all[Len(all)].fee_btc
                   ELSE 0))
         + Inventory(SubSeq(all, 1, Len(all) - 1), a)

\* the ledger replayed holds trades only, none of which sold more, its
\* fee_btc included, than was held
TradesWithoutShorts ==
    /\ Replayed
    /\ \A k \in 1..Len(ledger) :
            /\ ledger[k].type = "trade"
            /\ Inventory(SubSeq(ledger, 1, k), ledger[k].account) >= 0

\* C39: for a ledger of trades only, without shorts, after every event
\* gains - total_cost - dissallowed_loss = total_sell - total_buy, with or
\* without wash sales and under every selection policy; hence
\* gains + unrealized_gains = market_price * total_btc + total_sell -
\* total_buy.
C39_TradesIdentity ==
    TradesWithoutShorts =>
        /\ gains - total_cost - dissallowed_loss = total_sell - total_buy
        /\ \A market_price \in MarketPrices :
                gains + unrealized_gains(Aggregates, market_price)
                    = market_price * SumOver(account_btc, Accounts)
                        + total_sell - total_buy

\* a purchase carries the loss of a sale, trades were charged fees and
\* something is still held
C39_Witness ==
    /\ TradesWithoutShorts
    /\ Len(ledger) = 3
    /\ dissallowed_loss > 0
    /\ \E k \in 1..Len(ledger) : ledger[k].fee_usd > 0
    /\ \E k \in 1..Len(ledger) : ledger[k].btc < 0 /\ ledger[k].fee_btc > 0
    /\ SumOver(account_btc, Accounts) > 0

----------------------------------------------------------------------------
(* Claims about the pairs of recent_sells *)

\* the pair p is passed over by an acquisition at timestamp (lines 1587-1590)
PassedOver(p, timestamp) == TooOld(p, timestamp) \/ MadeGain(p)

RECURSIVE MatchableBtc(_, _, _)
\* the BTC of the first k pairs of rs an acquisition at timestamp does not
\* pass over
MatchableBtc(rs, k, timestamp) ==
    IF k = 0 THEN 0
    ELSE (IF PassedOver(rs[k], timestamp) THEN 0 ELSE rs[k][1].btc)
            + MatchableBtc(rs, k - 1, timestamp)

\* the pair rem is what is left of the pair p, btc of it
RemainderOf(rem, p, btc) ==
    /\ rem[1].btc = btc /\ rem[2].btc = btc
    /\ btc < p[1].btc
    /\ rem[1].timestamp = p[1].timestamp
    /\ rem[1].transaction = p[1].transaction
    /\ rem[2].timestamp = p[2].timestamp
    /\ rem[2].transaction = p[2].transaction

\* an acquisition of btc at timestamp took the first k - 1 pairs of rs, the
\* pairs it passed over dropped and the others matched in full, and left
\* the rest as it was
ConsumedTo(rs, after, k, btc, timestamp) ==
    /\ after = SubSeq(rs, k, Len(rs))
    /\ IF k <= Len(rs) THEN MatchableBtc(rs, k - 1, timestamp) = btc
       ELSE MatchableBtc(rs, k - 1, timestamp) <= btc

\* an acquisition of btc at timestamp took the first k - 1 pairs of rs and
\* a part of the k-th, whose remainder heads the queue
ConsumedInto(rs, after, k, btc, timestamp) ==
    /\ ~PassedOver(rs[k], timestamp)
    /\ MatchableBtc(rs, k - 1, timestamp) < btc
    /\ btc < MatchableBtc(rs, k, timestamp)
    /\ after # <<>>
    /\ RemainderOf(after[1], rs[k], MatchableBtc(rs, k, timestamp) - btc)
    /\ Tail(after) = SubSeq(rs, k + 1, Len(rs))

\* C40: in every (sell, buy) pair held in recent_sells sell.btc = buy.btc;
\* an acquisition consumes the queue from its oldest pair, the BTC it
\* matches leave the queue, so that no sold BTC is matched twice, and the
\* unmatched remainder of a partially matched pair stays at the head.
C40_PairsOfRecentSells ==
    [][mode = "replay" =>
        /\ \A k \in 1..Len(recent_sells') :
                recent_sells'[k][1].btc = recent_sells'[k][2].btc
        /\ AcquiresWashed =>
                \/ \E k \in 1..(Len(recent_sells) + 1) :
                        ConsumedTo(recent_sells, recent_sells', k,
                                   ledger'[Len(ledger')].btc,
                                   ledger'[Len(ledger')].timestamp)
                \/ \E k \in 1..Len(recent_sells) :
                        ConsumedInto(recent_sells, recent_sells', k,
                                     ledger'[Len(ledger')].btc,
                                     ledger'[Len(ledger')].timestamp)]_vars

\* two lots were sold at a loss, the first of 2 BTC, and 1 BTC was bought
\* back: the remainder of the first sale heads the queue, before the second
C40_Witness ==
    /\ Replayed
    /\ ~nowash
    /\ Len(ledger) = 5
    /\ IsBuy(ledger[5]) /\ ledger[5].btc = 1
    /\ Len(recent_sells) = 2
    /\ recent_sells[1][1].transaction < recent_sells[2][1].transaction
    /\ recent_sells[1][1].btc = 1
    /\ recent_sells[1][1].btc < -ledger[recent_sells[1][1].transaction].btc
    /\ dissallowed_loss > 0

====
